---------------------------- MODULE Spec2Model ----------------------------
(***************************************************************************)
(* A model of the batch query construction pipeline of QueryAgent.         *)
(*                                                                         *)
(*   Spec        generate_batch (agent.py): the per-specification unit of  *)
(*               work _process_spec run by a pool of worker threads or by  *)
(*               the sequential loop, the shared search cache, the retry   *)
(*               loop around build_query, packaging and the fan-in.        *)
(*   SpecSearch  QueryConstructionAgent.run_search (agent.py): the loop    *)
(*               over the base queries, the three attempts per base query  *)
(*               with query relaxation, de-duplication and truncation.     *)
(*   SpecRelax   _relax_search_query and _build_query_variants (agent.py)  *)
(*               over every short query, with the variant each of the      *)
(*               three attempts of run_search sends.                       *)
(*   SpecBundle  select_ground_truth_bundle (ground_truth.py): the choice  *)
(*               of the primary, the domain refinement, the fallback to    *)
(*               the first result and the supporting list.                 *)
(*   SpecInverse expand_with_inverse_specs and build_inverse_spec          *)
(*               (inverse_utils.py) over a batch of specifications, and    *)
(*               QuerySpec.to_metadata (spec.py) on what it returns.       *)
(*   SpecNotes   _ensure_inverse_notes (inverse_utils.py) over every short *)
(*               text of notes, applied once and once more.                *)
(*   SpecNormalize  QueryConstructionAgent._post_process (agent.py) on a   *)
(*               generation output, and once more on its own result.       *)
(*   SpecStages  build_query (agent.py) from the generation on: the        *)
(*               statements of _post_process one after the other.          *)
(*   SpecQueries QuerySpec (spec.py): the construction and the assignments *)
(*               to search_query, with normalize_search_queries.           *)
(*   SpecChat    OpenAIChatClient.create_chat_completion (llm.py): the     *)
(*               requests of one call.                                     *)
(***************************************************************************)
EXTENDS Integers, Sequences, FiniteSets, TLC

(***************************************************************************)
(* Bounds of the model.                                                    *)
(***************************************************************************)
\* longest batch handed to generate_batch
MaxSpecs == 2
\* number of distinct cache keys the specifications of a batch draw from
NumKeys == 2
\* largest worker count given to generate_batch
MaxWorkers == 2

VARIABLES
    \* ---- generate_batch ----
    specs,                \* the batch: specs[i] is the cache key of the i-th specification
    resolved_workers,     \* the resolved worker count (>= 1)
    package_dir,          \* TRUE when a package directory was given
    fallback_to_template, \* the FALLBACK_TO_TEMPLATE environment switch read by build_query
    search_cache,         \* cache key -> result list (0 is None)
    task,                 \* per specification: the state of its _process_spec call
    results,              \* the index-addressed list of the threaded path
    outputs,              \* the list the sequential path appends to
    out_of_order,         \* TRUE once a call of _process_spec ended before the call of an earlier specification
    batch,                \* "running", "returned" or "raised", with the returned list
    \* ---- run_search ----
    rs_spec,              \* the specification: its identifier and its base queries
    num_results,          \* the target count
    base_idx,             \* the place of the base query at work (from 1)
    attempt,              \* the attempt of that base query (from 0)
    aggregated_results,   \* the de-duplicated hits so far
    seen_keys,            \* their de-duplication keys
    errors,               \* the errors of the base queries that failed
    any_hit,              \* TRUE once a call of the backend returned a hit
    last_sent,            \* the latest call of the backend: base query, attempt, variant, size of the aggregate, outcome
    search,               \* "attempt", "returned" or "raised", with the list or the error
    \* ---- the functions checked on their own ----
    relax,                \* a base query, the attempt at work and the variant last sent
    gt,                   \* a call of select_ground_truth_bundle: its inputs, its place and its bundle
    inv,                  \* a call of expand_with_inverse_specs: the batch, the loop and the expanded list
    notes_call,           \* a call of _ensure_inverse_notes: the notes, and the results of one and two calls
    pp,                   \* a call of _post_process: its arguments, its result, and the result of a second call
    norm,                 \* a call of build_query from the generation on: the statements of _post_process it has run
    qspec,                \* a QuerySpec: its search_queries, and the outcome of the latest construction or assignment
    chat                  \* a call of create_chat_completion: the requests sent and how it ended

batchVars == <<specs, resolved_workers, package_dir, fallback_to_template,
               search_cache, task, results, outputs, out_of_order, batch>>

searchVars == <<rs_spec, num_results, base_idx, attempt, aggregated_results,
                seen_keys, errors, any_hit, last_sent, search>>

functionVars == <<relax, gt, inv, notes_call, pp, norm, qspec, chat>>

vars == <<batchVars, searchVars, functionVars>>

\* what a step of generate_batch leaves alone, and what a step of run_search does
nonBatchVars == <<searchVars, functionVars>>
nonSearchVars == <<batchVars, functionVars>>
\* what a step of each function leaves alone
nonRelaxVars == <<batchVars, searchVars, gt, inv, notes_call, pp, norm, qspec, chat>>
nonBundleVars == <<batchVars, searchVars, relax, inv, notes_call, pp, norm, qspec, chat>>
nonInverseVars == <<batchVars, searchVars, relax, gt, notes_call, pp, norm, qspec, chat>>
nonNotesVars == <<batchVars, searchVars, relax, gt, inv, pp, norm, qspec, chat>>
nonNormalizeVars == <<batchVars, searchVars, relax, gt, inv, notes_call, norm, qspec, chat>>
nonStagesVars == <<batchVars, searchVars, relax, gt, inv, notes_call, pp, qspec, chat>>
nonQueriesVars == <<batchVars, searchVars, relax, gt, inv, notes_call, pp, norm, chat>>
nonChatVars == <<batchVars, searchVars, relax, gt, inv, notes_call, pp, norm, qspec>>

-----------------------------------------------------------------------------
(***************************************************************************)
(* Values.                                                                 *)
(***************************************************************************)
Keys == 1 .. NumKeys

\* Python's None for a result list. A result list is named by the specification
\* whose run_search call returned it: every call returns a list of its own.
NoResults == 0

\* Python's None in the place of a payload
NoPayload == [query_id |-> 0, origin |-> "none", search_results |-> NoResults, package_path |-> 0]

\* the payload build_query returns for specification i
Payload(i, origin, sr) ==
    [query_id |-> i, origin |-> origin, search_results |-> sr, package_path |-> 0]

SpecIds == 1 .. Len(specs)

\* the state of one call of _process_spec
NewTask ==
    [pc |-> "queued", search_results |-> NoResults, searches |-> 0, search_failed |-> FALSE,
     build_log |-> <<>>, payload |-> NoPayload, exc |-> "none", collected |-> FALSE]

-----------------------------------------------------------------------------
(***************************************************************************)
(* generate_batch                                                          *)
(***************************************************************************)
\* Cache keys are names: a batch is taken up to renaming of its keys, the keys
\* numbered in the order of their first use.
FirstUse(s) ==
    \A i \in 1 .. Len(s) : s[i] = 1 \/ \E j \in 1 .. i - 1 : s[j] = s[i] - 1

InitBatch ==
    /\ specs \in { s \in UNION { [1 .. n -> Keys] : n \in 1 .. MaxSpecs } : FirstUse(s) }
    /\ resolved_workers \in 1 .. MaxWorkers
    /\ package_dir \in BOOLEAN
    /\ fallback_to_template \in BOOLEAN
    /\ search_cache = [k \in Keys |-> NoResults]
    /\ task = [i \in 1 .. Len(specs) |-> NewTask]
    /\ results = [i \in 1 .. Len(specs) |-> NoPayload]
    /\ outputs = <<>>
    /\ out_of_order = FALSE
    /\ batch = [pc |-> "running", value |-> <<>>]

\* agent.py:1014, the choice between the sequential loop and the thread pool
Sequential == resolved_workers = 1 \/ Len(specs) <= 1

\* the calls of _process_spec that are executing
Running == { i \in SpecIds : task[i].pc \in {"search", "store", "build", "package"} }

Ended(i) == task[i].pc \in {"returned", "raised"}

\* a retry loop that allows one attempt more
BuildAttemptsOneMore == 3 + 1

\* number of attempts of the retry loop around build_query, agent.py:981
BuildAttempts == 3

\* agent.py:962-963, the read of the cache under cache_lock
CacheGet(cache, key) == cache[key]

\* agent.py:976-977, the write of the cache under cache_lock
CachePut(cache, key, sr) == [cache EXCEPT ![key] = sr]

\* a _process_spec that caches a list of no result (-1) after a SearchError
OnSearchErrorCached(t) ==
    [t EXCEPT !.pc = "store", !.search_failed = TRUE, !.search_results = -1]

\* a _process_spec that searches again after a SearchError
OnSearchErrorRetry(t) == [t EXCEPT !.pc = "search", !.search_failed = TRUE]

\* agent.py:968-975, what _process_spec does when run_search raises SearchError:
\* it logs "skipping to next query" and returns None
OnSearchError(t) ==
    [t EXCEPT !.pc = "returned", !.search_failed = TRUE, !.payload = NoPayload]

\* a build_query that falls back to the template whatever the switch says
TemplateFallbackAlways(env) == TRUE

\* agent.py:299, the FALLBACK_TO_TEMPLATE switch of build_query
TemplateFallback(env) == env

\* agent.py:265-329, build_query called with the search results of the cache.
\* llm is the outcome of run_json_completion: "ok", "LLMError", or "Other" for
\* an exception that is neither SearchError nor LLMError (a KeyError on a
\* malformed completion at llm.py:135, an OSError of the ground-truth cache).
\* The result is what the call does: it returns a payload or raises.
build_query(i, sr, llm, env) ==
    CASE llm = "ok" -> [kind |-> "return", payload |-> Payload(i, "llm", sr)]
      [] llm = "LLMError" /\ TemplateFallback(env) ->
            [kind |-> "return", payload |-> Payload(i, "template", sr)]
      [] llm = "LLMError" /\ ~TemplateFallback(env) ->
            [kind |-> "LLMError", payload |-> NoPayload]
      [] OTHER -> [kind |-> "Other", payload |-> NoPayload]

\* agent.py:1002, where _process_spec goes once build_query returned a payload
AfterBuild(pkg) == IF pkg THEN "package" ELSE "returned"

\* agent.py:979-1000, one iteration of the retry loop of _process_spec
BuildStep(t, out, pkg) ==
    LET logged == [t EXCEPT !.build_log = Append(@, out.kind)]
    IN  CASE out.kind = "return" ->
                [logged EXCEPT !.payload = out.payload, !.pc = AfterBuild(pkg)]
          [] out.kind = "LLMError" ->
                IF Len(logged.build_log) >= BuildAttempts
                    THEN [logged EXCEPT !.pc = "returned", !.payload = NoPayload]
                    ELSE logged
          [] OTHER -> [logged EXCEPT !.pc = "raised", !.exc = "Other"]

\* a fan-in that stores in the order of completion: the first free place
StoreResultInCompletionOrder(res, idx, payload) ==
    LET free == { k \in DOMAIN res : res[k] = NoPayload }
        first == CHOOSE k \in free : \A m \in free : k <= m
    IN  [res EXCEPT ![first] = payload]

\* agent.py:1039-1040, the fan-in of the threaded path stores by input index
StoreResult(res, idx, payload) == [res EXCEPT ![idx] = payload]

\* agent.py:1042 and 1018-1020, the list generate_batch returns
RECURSIVE Compact(_, _)
Compact(res, n) ==
    IF n = 0 THEN <<>>
    ELSE IF res[n] = NoPayload THEN Compact(res, n - 1)
         ELSE Append(Compact(res, n - 1), res[n])

\* one step of the call of _process_spec for specification i
Step(i, t) ==
    /\ task' = [task EXCEPT ![i] = t]
    /\ out_of_order' = (\/ out_of_order
                        \/ /\ t.pc \in {"returned", "raised"}
                           /\ \E j \in 1 .. i - 1 : ~Ended(j))

\* agent.py:1016-1017 (the loop calls _process_spec) and 1023-1026 (a worker
\* thread of the pool takes the next submitted call from its queue), then
\* agent.py:950-965: the call computes its cache key and reads the cache under
\* cache_lock, which it releases before it searches
StartTask(i) ==
    /\ batch.pc = "running"
    /\ task[i].pc = "queued"
    /\ \A j \in 1 .. i - 1 : task[j].pc # "queued"
    /\ IF Sequential
          THEN \A j \in 1 .. i - 1 : task[j].collected
          ELSE Cardinality(Running) < resolved_workers
    /\ LET sr == CacheGet(search_cache, specs[i])
       IN  Step(i, [task[i] EXCEPT !.search_results = sr,
                                   !.pc = IF sr = NoResults THEN "search" ELSE "build"])
    /\ UNCHANGED <<specs, resolved_workers, package_dir, fallback_to_template,
                   search_cache, results, outputs, batch>>
    /\ UNCHANGED nonBatchVars

\* agent.py:966-975, the call of run_search outside the lock
RunSearch(i) ==
    /\ task[i].pc = "search"
    /\ LET called == [task[i] EXCEPT !.searches = @ + 1]
       IN  \/ Step(i, [called EXCEPT !.search_results = i, !.pc = "store"])
           \/ Step(i, OnSearchError(called))
           \/ Step(i, [called EXCEPT !.pc = "raised", !.exc = "Other"])
    /\ UNCHANGED <<specs, resolved_workers, package_dir, fallback_to_template,
                   search_cache, results, outputs, batch>>
    /\ UNCHANGED nonBatchVars

\* agent.py:976-977
CacheStore(i) ==
    /\ task[i].pc = "store"
    /\ search_cache' = CachePut(search_cache, specs[i], task[i].search_results)
    /\ Step(i, [task[i] EXCEPT !.pc = "build"])
    /\ UNCHANGED <<specs, resolved_workers, package_dir, fallback_to_template,
                   results, outputs, batch>>
    /\ UNCHANGED nonBatchVars

\* agent.py:981-1000
BuildQuery(i) ==
    /\ task[i].pc = "build"
    /\ \E llm \in {"ok", "LLMError", "Other"} :
          Step(i, BuildStep(task[i],
                            build_query(i, task[i].search_results, llm, fallback_to_template),
                            package_dir))
    /\ UNCHANGED <<specs, resolved_workers, package_dir, fallback_to_template,
                   search_cache, results, outputs, batch>>
    /\ UNCHANGED nonBatchVars

\* agent.py:1002-1012 with packager.py:98-120: save_query_package creates the
\* directories and writes query.json, and an OSError of either is not caught
SavePackage(i) ==
    /\ task[i].pc = "package"
    /\ \/ Step(i, [task[i] EXCEPT !.payload.package_path = i, !.pc = "returned"])
       \/ Step(i, [task[i] EXCEPT !.pc = "raised", !.exc = "OSError"])
    /\ UNCHANGED <<specs, resolved_workers, package_dir, fallback_to_template,
                   search_cache, results, outputs, batch>>
    /\ UNCHANGED nonBatchVars

\* agent.py:1016-1019, the sequential loop takes the value of the call it made;
\* an exception of the call leaves generate_batch
CollectSequential(i) ==
    /\ batch.pc = "running"
    /\ Sequential
    /\ Ended(i) /\ ~task[i].collected
    /\ task' = [task EXCEPT ![i].collected = TRUE]
    /\ IF task[i].pc = "raised"
          THEN /\ batch' = [pc |-> "raised", value |-> <<>>]
               /\ outputs' = outputs
          ELSE /\ batch' = batch
               /\ outputs' = IF task[i].payload # NoPayload
                                THEN Append(outputs, task[i].payload) ELSE outputs
    /\ UNCHANGED <<specs, resolved_workers, package_dir, fallback_to_template,
                   search_cache, results, out_of_order>>
    /\ UNCHANGED nonBatchVars

\* agent.py:1027-1040, as_completed yields a finished future
CollectFuture(i) ==
    /\ batch.pc = "running"
    /\ ~Sequential
    /\ Ended(i) /\ ~task[i].collected
    /\ task' = [task EXCEPT ![i].collected = TRUE]
    /\ results' = IF task[i].pc = "returned" /\ task[i].payload # NoPayload
                     THEN StoreResult(results, i, task[i].payload) ELSE results
    /\ UNCHANGED <<specs, resolved_workers, package_dir, fallback_to_template,
                   search_cache, outputs, out_of_order, batch>>
    /\ UNCHANGED nonBatchVars

\* agent.py:1020 and 1042
Return ==
    /\ batch.pc = "running"
    /\ \A i \in SpecIds : task[i].collected
    /\ batch' = [pc |-> "returned",
                 value |-> IF Sequential THEN outputs ELSE Compact(results, Len(specs))]
    /\ UNCHANGED <<specs, resolved_workers, package_dir, fallback_to_template,
                   search_cache, task, results, outputs, out_of_order>>
    /\ UNCHANGED nonBatchVars

Next ==
    \/ \E i \in SpecIds : StartTask(i)
    \/ \E i \in SpecIds : RunSearch(i)
    \/ \E i \in SpecIds : CacheStore(i)
    \/ \E i \in SpecIds : BuildQuery(i)
    \/ \E i \in SpecIds : SavePackage(i)
    \/ \E i \in SpecIds : CollectSequential(i)
    \/ \E i \in SpecIds : CollectFuture(i)
    \/ Return

\* no batch is run
IdleBatch ==
    /\ specs = <<>>
    /\ resolved_workers = 1
    /\ package_dir = FALSE
    /\ fallback_to_template = FALSE
    /\ search_cache = [k \in Keys |-> NoResults]
    /\ task = <<>>
    /\ results = <<>>
    /\ outputs = <<>>
    /\ out_of_order = FALSE
    /\ batch = [pc |-> "idle", value |-> <<>>]

\* no search is run on its own
IdleSearch ==
    /\ rs_spec = [query_id |-> "", search_queries |-> <<>>]
    /\ num_results = 0
    /\ base_idx = 0
    /\ attempt = 0
    /\ aggregated_results = <<>>
    /\ seen_keys = {}
    /\ errors = <<>>
    /\ any_hit = FALSE
    /\ last_sent = [base_idx |-> 0, attempt |-> 0, variant |-> <<>>, agg_before |-> 0]
    /\ search = [pc |-> "idle", value |-> <<>>,
                 error |-> [query_id |-> "", queries |-> <<>>, causes |-> <<>>]]

\* no query is relaxed on its own
IdleRelax ==
    relax = [pc |-> "idle", base_query |-> <<>>, attempt |-> 0,
             variant_index |-> 0, query_variant |-> <<>>]

\* no bundle is selected on its own
IdleBundle ==
    gt = [pc |-> "idle", results |-> <<>>, reachable |-> {}, pairs |-> 0,
          path |-> "none", primary |-> "", supporting |-> <<>>, refined |-> <<>>]

\* no batch is expanded on its own
IdleInverse ==
    inv = [pc |-> "idle", specs |-> <<>>, i |-> 0, expanded |-> <<>>,
           seen_ids |-> {}, value |-> <<>>, metadata |-> <<>>]

\* no notes are completed on their own
IdleNotes == notes_call = [pc |-> "idle", notes |-> <<>>, once |-> <<>>, twice |-> <<>>]

\* no payload is normalized on its own
IdleNormalize == pp = [pc |-> "idle"]

\* no payload is followed through the statements of _post_process
IdleStages == norm = [pc |-> "idle"]

\* no QuerySpec is constructed on its own
IdleQueries == qspec = [pc |-> "idle"]

\* no completion is requested on its own
IdleChat == chat = [pc |-> "idle"]

\* the parts that have no specification of their own to be idle in
IdleOthers == IdleStages /\ IdleQueries /\ IdleChat

IdleFunctions == IdleRelax /\ IdleBundle /\ IdleInverse /\ IdleNotes /\ IdleNormalize /\ IdleOthers

Init == InitBatch /\ IdleSearch /\ IdleFunctions

Spec == Init /\ [][Next]_vars

-----------------------------------------------------------------------------
(***************************************************************************)
(* run_search                                                              *)
(*                                                                         *)
(* A query string is a sequence of atoms: "W" a run of word characters,    *)
(* "SP" one white-space character, "FT" a file-type operator such as       *)
(* filetype:pdf, "SITE" a site operator such as site:gov.cn, "OR" the word *)
(* OR, and "YR" a year range such as 2022..2024. Every atom but "SP"       *)
(* begins and ends with a word character, so the regular expressions'      *)
(* \b holds before an atom exactly at the start of the string or after     *)
(* "SP", and \S+ runs to the next "SP".                                    *)
(***************************************************************************)
\* \b before the atom at place i
Boundary(q, i) == i = 1 \/ q[i - 1] = "SP"

RECURSIVE RunEnd(_, _)
\* the last place of the run of non-space atoms that holds place i (\S+)
RunEnd(q, i) == IF i < Len(q) /\ q[i + 1] # "SP" THEN RunEnd(q, i + 1) ELSE i

RECURSIVE SkipSpaces(_, _)
\* the first place from i on that holds no white space (\s+)
SkipSpaces(q, i) == IF i <= Len(q) /\ q[i] = "SP" THEN SkipSpaces(q, i + 1) ELSE i

\* agent.py:39-48, the four patterns: the last place of the match that begins
\* at place i, or 0 when the pattern does not match there
MatchEnd(rule, q, i) ==
    CASE rule = "filetype" ->
            IF q[i] = "FT" /\ Boundary(q, i) THEN RunEnd(q, i) ELSE 0
      [] rule = "or_site" ->
            IF q[i] = "OR" /\ Boundary(q, i) /\ i < Len(q) /\ q[i + 1] = "SP"
               THEN LET j == SkipSpaces(q, i + 1)
                    IN  IF j <= Len(q) /\ q[j] = "SITE" THEN RunEnd(q, j) ELSE 0
               ELSE 0
      [] rule = "site" ->
            IF q[i] = "SITE" /\ Boundary(q, i) THEN RunEnd(q, i) ELSE 0
      [] rule = "year" ->
            IF q[i] = "YR" /\ Boundary(q, i) /\ (i = Len(q) \/ q[i + 1] = "SP")
               THEN i ELSE 0

RECURSIVE ReSub(_, _, _)
\* re.sub(pattern, "", q) from place i on
ReSub(rule, q, i) ==
    IF i > Len(q) THEN <<>>
    ELSE LET e == MatchEnd(rule, q, i)
         IN  IF e = 0 THEN <<q[i]>> \o ReSub(rule, q, i + 1)
             ELSE ReSub(rule, q, e + 1)

RECURSIVE Collapse(_, _)
\* agent.py:51, re.sub(r"\s{2,}", " ", q) from place i on
Collapse(q, i) ==
    IF i > Len(q) THEN <<>>
    ELSE IF q[i] = "SP" /\ i > 1 /\ q[i - 1] = "SP" THEN Collapse(q, i + 1)
         ELSE <<q[i]>> \o Collapse(q, i + 1)

RECURSIVE Strip(_)
\* agent.py:51, str.strip
Strip(q) ==
    IF q = <<>> THEN q
    ELSE IF Head(q) = "SP" THEN Strip(Tail(q))
         ELSE IF q[Len(q)] = "SP" THEN Strip(SubSeq(q, 1, Len(q) - 1))
              ELSE q

\* agent.py:30-54
relax_search_query(query) ==
    LET r1 == ReSub("filetype", query, 1)
        r2 == ReSub("or_site", r1, 1)
        r3 == ReSub("site", r2, 1)
        r4 == ReSub("year", r3, 1)
        relaxed == Strip(Collapse(r4, 1))
    IN  IF relaxed # <<>> THEN relaxed ELSE query

\* agent.py:57-69
build_query_variants(query) ==
    LET relaxed == relax_search_query(query)
    IN  IF relaxed # <<>> /\ relaxed # query THEN <<query, relaxed>> ELSE <<query>>

\* "site:gov.cn filetype:pdf <words> 2022..2024"
QueryScoped == <<"SITE", "SP", "FT", "SP", "W", "SP", "YR">>
\* a query of plain words
QueryPlain == <<"W">>
\* a query that is nothing but an operator: relaxing it leaves nothing
QueryOperator == <<"FT">>

QueryUniverse == {QueryScoped, QueryPlain, QueryOperator}

\* longest list of base queries of a specification
MaxQueries == 2
\* largest target_count (num_results)
MaxTarget == 2
\* longest list of hits the search backend returns in the model
MaxHits == 2

\* search hits (search.py:47-55); an empty url is an absent url
Candidates ==
    { [url |-> "u1", title |-> "t1", snippet |-> "s1", source |-> "a"],
      [url |-> "u1", title |-> "t2", snippet |-> "s1", source |-> "a"],
      [url |-> "u2", title |-> "t1", snippet |-> "s1", source |-> "a"],
      [url |-> "", title |-> "t1", snippet |-> "s1", source |-> "a"],
      [url |-> "", title |-> "t1", snippet |-> "s1", source |-> "b"] }

\* the lists of hits serper_search may return (search.py:521-613)
Responses == UNION { [1 .. n -> Candidates] : n \in 0 .. MaxHits }

\* the specifications handed to run_search: the de-duplicated, non-empty
\* lists of queries (spec.py:101-105)
SearchSpecs ==
    { [query_id |-> id, search_queries |-> qs] :
        id \in {"q1", "q2"},
        qs \in { s \in UNION { [1 .. n -> QueryUniverse] : n \in 1 .. MaxQueries } :
                   \A i, j \in 1 .. Len(s) : i # j => s[i] # s[j] } }

\* a de-duplication that looks at title and snippet only
DedupKeyTitleOnly(c) == c.title \o "|" \o c.snippet

\* agent.py:184
DedupKey(c) == IF c.url # "" THEN c.url ELSE c.title \o "|" \o c.snippet

\* a loop over the base queries that stops at the first candidate
ReachedTargetOnAnyHit(agg, n) == Len(agg) >= 1

\* agent.py:189 and 201
ReachedTarget(agg, n) == Len(agg) >= n

RECURSIVE Aggregate(_, _, _, _)
\* agent.py:183-190, the loop that adds the hits of one response to the
\* aggregate: state is [agg, seen], hits the hits not yet looked at
Aggregate(agg, seen, hits, n) ==
    IF hits = <<>> THEN [agg |-> agg, seen |-> seen]
    ELSE LET key == DedupKey(Head(hits))
         IN  IF key \in seen THEN Aggregate(agg, seen, Tail(hits), n)
             ELSE LET added == Append(agg, Head(hits))
                  IN  IF ReachedTarget(added, n)
                         THEN [agg |-> added, seen |-> seen \cup {key}]
                         ELSE Aggregate(added, seen \cup {key}, Tail(hits), n)

\* a run_search that raises whenever a base query failed
RaiseOnAnyError(agg, errs) == errs # <<>>

\* agent.py:204
RaiseSearchError(agg, errs) == agg = <<>>

\* agent.py:217, aggregated_results[:num_results]
Truncate(agg, n) == SubSeq(agg, 1, IF Len(agg) < n THEN Len(agg) ELSE n)

\* agent.py:204-217, the end of run_search
Finish(spec, agg, errs, n) ==
    IF RaiseSearchError(agg, errs)
       THEN [pc |-> "raised", value |-> <<>>,
             error |-> [query_id |-> spec.query_id, queries |-> spec.search_queries,
                        causes |-> errs]]
       ELSE [pc |-> "returned", value |-> Truncate(agg, n),
             error |-> [query_id |-> "", queries |-> <<>>, causes |-> <<>>]]

\* agent.py:135 and 201-202: after base query b, go on with the next base
\* query or end the call
AfterBase(spec, b, agg, errs, n) ==
    IF ReachedTarget(agg, n) \/ b >= Len(spec.search_queries)
       THEN [base_idx |-> b, search |-> Finish(spec, agg, errs, n)]
       ELSE [base_idx |-> b + 1,
             search |-> [pc |-> "attempt", value |-> <<>>,
                         error |-> [query_id |-> "", queries |-> <<>>, causes |-> <<>>]]]

\* a choice of variant that sends the verbatim query on every attempt
VariantIndexVerbatim(variants, att) == 1

\* agent.py:142-143, the variant sent on an attempt (attempts count from 0)
VariantIndex(variants, att) == IF att < Len(variants) - 1 THEN att + 1 ELSE Len(variants)

\* number of attempts per base query, agent.py:141
SearchAttempts == 3

\* no call of the backend yet
NothingSent ==
    [base_idx |-> 0, attempt |-> 0, variant |-> <<>>, num |-> 0, agg_before |-> 0,
     outcome |-> "none"]

InitSearch ==
    /\ rs_spec \in SearchSpecs
    /\ num_results \in 1 .. MaxTarget
    /\ base_idx = 1
    /\ attempt = 0
    /\ aggregated_results = <<>>
    /\ seen_keys = {}
    /\ errors = <<>>
    /\ any_hit = FALSE
    /\ last_sent = NothingSent
    /\ search = [pc |-> "attempt", value |-> <<>>,
                 error |-> [query_id |-> "", queries |-> <<>>, causes |-> <<>>]]

\* the variant run_search sends next
QueryVariant ==
    LET variants == build_query_variants(rs_spec.search_queries[base_idx])
    IN  variants[VariantIndex(variants, attempt)]

\* agent.py:156, the number of hits asked of the backend
Remaining == IF num_results - Len(aggregated_results) > 1
                THEN num_results - Len(aggregated_results) ELSE 1

\* agent.py:156-165, the call of serper_search and whether it returned or
\* raised SearchError
Sent(outcome) ==
    [base_idx |-> base_idx, attempt |-> attempt, variant |-> QueryVariant,
     num |-> Remaining, agg_before |-> Len(aggregated_results), outcome |-> outcome]

\* agent.py:155-164 and 178-202: serper_search returns hits (the Google CSE
\* path, search.py:490-518, does not cut its list to num, so the list may be
\* longer than was asked for); the attempts of the base query end, the hits
\* are added to the aggregate and the loop goes on with the next base query
\* or run_search ends
SearchReturns(hits) ==
    /\ search.pc = "attempt"
    /\ LET st == Aggregate(aggregated_results, seen_keys, hits, num_results)
           nxt == AfterBase(rs_spec, base_idx, st.agg, errors, num_results)
       IN  /\ aggregated_results' = st.agg
           /\ seen_keys' = st.seen
           /\ base_idx' = nxt.base_idx
           /\ search' = nxt.search
    /\ attempt' = 0
    /\ any_hit' = (any_hit \/ hits # <<>>)
    /\ last_sent' = Sent("returned")
    /\ UNCHANGED <<rs_spec, num_results, errors>>
    /\ UNCHANGED nonSearchVars

\* agent.py:165-181: serper_search raises SearchError; run_search sleeps and
\* tries again, or after the third failure notes the error and goes on with
\* the next base query or ends
SearchFails ==
    /\ search.pc = "attempt"
    /\ last_sent' = Sent("failed")
    /\ IF attempt + 1 < SearchAttempts
          THEN /\ attempt' = attempt + 1
               /\ UNCHANGED <<base_idx, errors, search>>
          ELSE LET errs == Append(errors, QueryVariant)
                   nxt == AfterBase(rs_spec, base_idx, aggregated_results, errs, num_results)
               IN  /\ errors' = errs
                   /\ attempt' = 0
                   /\ base_idx' = nxt.base_idx
                   /\ search' = nxt.search
    /\ UNCHANGED <<rs_spec, num_results, aggregated_results, seen_keys, any_hit>>
    /\ UNCHANGED nonSearchVars

NextSearch ==
    \/ \E hits \in Responses : SearchReturns(hits)
    \/ SearchFails

SearchInit == InitSearch /\ IdleBatch /\ IdleFunctions

SpecSearch == SearchInit /\ [][NextSearch]_vars

-----------------------------------------------------------------------------
(***************************************************************************)
(* Query relaxation on its own: every query of at most MaxAtoms atoms, and *)
(* the variants the three attempts of run_search send when each attempt    *)
(* fails.                                                                  *)
(***************************************************************************)
\* longest query, in atoms
MaxAtoms == 4

Atoms == {"W", "SP", "FT", "SITE", "OR", "YR"}

\* the base queries: non-empty and stripped (spec.py:28-33)
BaseQueries ==
    { q \in UNION { [1 .. n -> Atoms] : n \in 1 .. MaxAtoms } :
        q[1] # "SP" /\ q[Len(q)] # "SP" }

InitRelax ==
    relax \in { [pc |-> "attempt", base_query |-> q, attempt |-> 0,
                 variant_index |-> 0, query_variant |-> <<>>] : q \in BaseQueries }

\* agent.py:136-143 and 165-176: one attempt of the base query, which fails
SendVariant ==
    /\ relax.pc = "attempt"
    /\ LET query_variants == build_query_variants(relax.base_query)
           variant_index == VariantIndex(query_variants, relax.attempt)
       IN  relax' = [relax EXCEPT
                       !.variant_index = variant_index,
                       !.query_variant = query_variants[variant_index],
                       !.attempt = @ + 1,
                       !.pc = IF relax.attempt + 1 < SearchAttempts
                                 THEN "attempt" ELSE "done"]
    /\ UNCHANGED nonRelaxVars

NextRelax == SendVariant

RelaxInit ==
    InitRelax /\ IdleBatch /\ IdleSearch /\ IdleBundle /\ IdleInverse /\ IdleNotes /\ IdleNormalize /\ IdleOthers

SpecRelax == RelaxInit /\ [][NextRelax]_vars

-----------------------------------------------------------------------------
(***************************************************************************)
(* select_ground_truth_bundle                                              *)
(*                                                                         *)
(* A search result is known by its URL. The URLs of the model: two direct  *)
(* PDFs of different length, a repository page, a model hub page, two      *)
(* other pages of one length, an image, and the absent URL.                *)
(***************************************************************************)
Urls == {"p", "pp", "g", "h", "w", "x", "i", ""}

\* ground_truth.py:23-38
is_viable_ground_truth(url) == url \notin {"", "i"}

\* len(u) of ground_truth.py:97-110
UrlLen(url) == CASE url = "" -> 0 [] url = "pp" -> 2 [] OTHER -> 1

\* a choice of the primary that looks at the length of the URL only
primary_score_by_length(url) == <<0, UrlLen(url)>>

\* ground_truth.py:97-110
primary_score(url) ==
    CASE url = "" -> <<99, 99>>
      [] url \in {"p", "pp"} -> <<0, UrlLen(url)>>
      [] url = "g" -> <<1, UrlLen(url)>>
      [] url = "h" -> <<2, UrlLen(url)>>
      [] OTHER -> <<5, UrlLen(url)>>

\* Python's order of tuples
TupleLess(a, b) == a[1] < b[1] \/ (a[1] = b[1] /\ a[2] < b[2])

RECURSIVE InsertSorted(_, _)
\* one step of a stable sort: url goes after every URL whose score is not greater
InsertSorted(url, sorted) ==
    IF sorted = <<>> THEN <<url>>
    ELSE IF TupleLess(primary_score(url), primary_score(Head(sorted)))
            THEN <<url>> \o sorted
            ELSE <<Head(sorted)>> \o InsertSorted(url, Tail(sorted))

RECURSIVE SortedByScore(_)
\* ground_truth.py:112, sorted(viable, key=...)
SortedByScore(list) ==
    IF list = <<>> THEN <<>>
    ELSE InsertSorted(list[Len(list)], SortedByScore(SubSeq(list, 1, Len(list) - 1)))

\* ground_truth.py:91
Viable(list) == SelectSeq(list, is_viable_ground_truth)

\* ground_truth.py:112-115
Ordered(list, reachable) ==
    LET viable_sorted == SortedByScore(Viable(list))
        downloadable == SelectSeq(viable_sorted, LAMBDA u : u \in reachable)
    IN  IF downloadable # <<>> THEN downloadable ELSE viable_sorted

\* max_supporting, ground_truth.py:84
MaxSupporting == 3

FirstN(list, n) == SubSeq(list, 1, IF Len(list) < n THEN Len(list) ELSE n)

RECURSIVE SupportingUncapped(_, _, _, _)
\* a supporting list that takes every viable result but the primary
SupportingUncapped(list, primary_idx, i, acc) ==
    IF i > Len(list) THEN acc
    ELSE IF i = primary_idx \/ ~is_viable_ground_truth(list[i])
            THEN SupportingUncapped(list, primary_idx, i + 1, acc)
            ELSE SupportingUncapped(list, primary_idx, i + 1, Append(acc, list[i]))

RECURSIVE Supporting(_, _, _, _)
\* ground_truth.py:149-158: the results but the primary (the object at place
\* primary_idx), the viable ones, up to max_supporting of them
Supporting(list, primary_idx, i, acc) ==
    IF i > Len(list) \/ Len(acc) >= MaxSupporting THEN acc
    ELSE IF i = primary_idx \/ ~is_viable_ground_truth(list[i])
            THEN Supporting(list, primary_idx, i + 1, acc)
            ELSE Supporting(list, primary_idx, i + 1, Append(acc, list[i]))

\* the place of url in list (0 when absent)
IndexOf(list, url) ==
    IF \E i \in 1 .. Len(list) : list[i] = url
       THEN CHOOSE i \in 1 .. Len(list) : list[i] = url /\ \A j \in 1 .. i - 1 : list[j] # url
       ELSE 0

\* longest list of results handed to select_ground_truth_bundle
MaxResults == 3
\* longest list a refined search returns
MaxRefined == 2
\* largest number of (result, domain) pairs the refinement walks
MaxDomains == 2

\* the lists run_search returns: no URL twice (agent.py:183-190); the empty
\* list stands for a caller that hands over no results
ResultLists ==
    { l \in UNION { [1 .. n -> Urls] : n \in 0 .. MaxResults } :
        \A i, j \in 1 .. Len(l) : i # j => l[i] # l[j] }

\* lists with more viable results than a bundle takes (the default
\* num_results of run_search is 5, agent.py:105)
LongResultLists ==
    { <<"w", "p", "g", "h", "x">>,
      <<"x", "i", "w", "h", "g", "pp">>,
      <<"", "w", "x", "g", "h", "i">>,
      <<"i", "", "w", "x", "g", "h", "p">> }

\* the lists a refined search returns (search.py:521-613)
RefinedLists == UNION { [1 .. n -> Urls] : n \in 0 .. MaxRefined }

\* the URLs of list that answer the reachability probe is an input; the
\* domains named in the snippets are looked at only when no result is viable
InitBundle ==
    \E rs \in ResultLists \cup LongResultLists :
      \E reachable \in SUBSET { rs[i] : i \in 1 .. Len(rs) } :
        \E pairs \in 0 .. MaxDomains :
          /\ \A u \in reachable : is_viable_ground_truth(u)
          /\ (Viable(rs) # <<>> \/ rs = <<>>) => pairs = 0
          /\ gt = [pc |-> "select", results |-> rs, reachable |-> reachable,
                   pairs |-> pairs, path |-> "none", primary |-> "", supporting |-> <<>>,
                   refined |-> <<>>]

\* ground_truth.py:88-119 and 145-163: no results, a primary among the viable
\* results, or none
SelectPrimary ==
    /\ gt.pc = "select"
    /\ LET ordered == Ordered(gt.results, gt.reachable)
       IN  gt' = IF gt.results = <<>> THEN [gt EXCEPT !.pc = "raised"]
                 ELSE IF ordered # <<>>
                    THEN [gt EXCEPT !.pc = "returned", !.path = "main",
                                    !.primary = ordered[1],
                                    !.supporting =
                                        Supporting(gt.results, IndexOf(gt.results, ordered[1]), 1, <<>>)]
                    ELSE [gt EXCEPT !.pc = "refine"]
    /\ UNCHANGED nonBundleVars

\* ground_truth.py:121-143: the refined search for one domain returns
RefineReturns(refined) ==
    /\ gt.pc = "refine"
    /\ gt.pairs > 0
    /\ LET refined_viable == Viable(refined)
       IN  gt' = IF refined_viable # <<>>
                    THEN [gt EXCEPT !.pc = "returned", !.path = "refined",
                                    !.refined = refined,
                                    !.primary = refined_viable[1],
                                    !.supporting = FirstN(Tail(refined_viable), MaxSupporting)]
                    ELSE [gt EXCEPT !.pairs = @ - 1]
    /\ UNCHANGED nonBundleVars

\* ground_truth.py:131-132: the refined search raises SearchError
RefineFails ==
    /\ gt.pc = "refine"
    /\ gt.pairs > 0
    /\ gt' = [gt EXCEPT !.pairs = @ - 1]
    /\ UNCHANGED nonBundleVars

\* ground_truth.py:123-132 with search.py:577: the refined search ends with an
\* error that is no SearchError (the backend answers 200 with a body that is
\* no JSON, and response.json() is outside the try of serper_search); the
\* except clause does not catch it and the call ends with that error
RefineRaisesOther ==
    /\ gt.pc = "refine"
    /\ gt.pairs > 0
    /\ gt' = [gt EXCEPT !.pc = "raised", !.path = "refined"]
    /\ UNCHANGED nonBundleVars

\* ground_truth.py:145-163: no domain is left, the first result is the primary
FallbackToFirst ==
    /\ gt.pc = "refine"
    /\ gt.pairs = 0
    /\ gt' = [gt EXCEPT !.pc = "returned", !.path = "fallback",
                        !.primary = gt.results[1],
                        !.supporting = Supporting(gt.results, 1, 1, <<>>)]
    /\ UNCHANGED nonBundleVars

NextBundle ==
    \/ SelectPrimary
    \/ \E refined \in RefinedLists : RefineReturns(refined)
    \/ RefineFails
    \/ RefineRaisesOther
    \/ FallbackToFirst

BundleInit ==
    InitBundle /\ IdleBatch /\ IdleSearch /\ IdleRelax /\ IdleInverse /\ IdleNotes /\ IdleNormalize /\ IdleOthers

SpecBundle == BundleInit /\ [][NextBundle]_vars

-----------------------------------------------------------------------------
(***************************************************************************)
(* _ensure_inverse_notes                                                   *)
(*                                                                         *)
(* Notes are a sequence of atoms: "h1" and "h2" the two halves of the      *)
(* guidance hint, "x" any other text, "SP" a blank and "NL" a line break.  *)
(***************************************************************************)
\* Python's None for the notes of a specification
NoneNotes == <<"None">>

\* INVERSE_NOTES_HINT, inverse_utils.py:12-16
guidance_hint == <<"h1", "h2">>

RECURSIVE StripText(_)
\* str.strip: blanks and line breaks off both ends
StripText(t) ==
    IF t = <<>> THEN t
    ELSE IF Head(t) \in {"SP", "NL"} THEN StripText(Tail(t))
         ELSE IF t[Len(t)] \in {"SP", "NL"} THEN StripText(SubSeq(t, 1, Len(t) - 1))
              ELSE t

\* Python's "hint in text"
Contains(text, hint) ==
    \E k \in 0 .. Len(text) - Len(hint) : SubSeq(text, k + 1, k + Len(hint)) = hint

\* a notes step that appends the hint whether or not it is there
append_inverse_notes(notes, hint) ==
    LET text == StripText(IF notes = NoneNotes THEN <<>> ELSE notes)
    IN  IF text # <<>> THEN StripText(text \o <<"NL">> \o hint) ELSE hint

\* inverse_utils.py:19-23
ensure_inverse_notes(notes, hint) ==
    LET text == StripText(IF notes = NoneNotes THEN <<>> ELSE notes)
    IN  IF Contains(text, hint) THEN text
        ELSE IF text # <<>> THEN StripText(text \o <<"NL">> \o hint) ELSE hint

\* longest notes, in atoms
MaxNotes == 4

NotesAtoms == {"h1", "h2", "x", "SP"}

NotesTexts == {NoneNotes} \cup UNION { [1 .. n -> NotesAtoms] : n \in 0 .. MaxNotes }

InitNotes ==
    notes_call \in { [pc |-> "first", notes |-> n, once |-> <<>>, twice |-> <<>>] :
                       n \in NotesTexts }

\* inverse_utils.py:47, the notes of the clone
EnsureNotes ==
    /\ notes_call.pc = "first"
    /\ notes_call' = [notes_call EXCEPT
                         !.pc = "second",
                         !.once = ensure_inverse_notes(notes_call.notes, guidance_hint)]
    /\ UNCHANGED nonNotesVars

\* inverse_utils.py:19-23 on its own result
EnsureNotesAgain ==
    /\ notes_call.pc = "second"
    /\ notes_call' = [notes_call EXCEPT
                         !.pc = "done",
                         !.twice = ensure_inverse_notes(notes_call.once, guidance_hint)]
    /\ UNCHANGED nonNotesVars

NextNotes == EnsureNotes \/ EnsureNotesAgain

NotesInit ==
    InitNotes /\ IdleBatch /\ IdleSearch /\ IdleRelax /\ IdleBundle /\ IdleInverse /\ IdleNormalize /\ IdleOthers

SpecNotes == NotesInit /\ [][NextNotes]_vars

-----------------------------------------------------------------------------
(***************************************************************************)
(* expand_with_inverse_specs                                               *)
(*                                                                         *)
(* An identifier is a sequence of parts joined by "-": "a-inverse-2" is    *)
(* <<"a", "inverse", "2">>.                                                *)
(***************************************************************************)
\* spec.py:89-93, level.upper()
Upper(level) == CASE level = "l4" -> "L4" [] OTHER -> level

Invalid == "ValueError"

\* a level check that takes every level
normalized_level_unchecked(level) == Upper(level)

\* spec.py:89-93
normalized_level(level) ==
    IF Upper(level) \notin {"L3", "L4", "L5"} THEN Invalid ELSE Upper(level)

\* str.strip().lower() of the orientations of the model
StripLower(o) == CASE o = " Inverse" -> "inverse" [] OTHER -> o

\* spec.py:95-99
normalized_orientation(orientation) ==
    LET value == StripLower(IF orientation = "" THEN "positive" ELSE orientation)
    IN  IF value \notin {"positive", "inverse"} THEN Invalid ELSE value

\* a clone that always takes the identifier {id}-inverse
FirstCandidate(base_id, counter, existing_ids) == base_id

RECURSIVE FreeCandidate(_, _, _)
\* inverse_utils.py:43-45, the loop that counts up to an unused identifier
FreeCandidate(base_id, counter, existing_ids) ==
    LET candidate == IF counter = 1 THEN base_id ELSE base_id \o <<ToString(counter)>>
    IN  IF candidate \in existing_ids
           THEN FreeCandidate(base_id, counter + 1, existing_ids)
           ELSE candidate

\* inverse_utils.py:49-54 with spec.py:72, 86-87 and 107-109: search_query is
\* an init-only field whose class attribute is the property of the same
\* name, so dataclasses.replace hands __post_init__ the value of the
\* property, the first query, and the clone's list is rebuilt from it
ReplacedQueries(spec) == <<spec.search_queries[1]>>

\* inverse_utils.py:26-54
build_inverse_spec(spec, existing_ids) ==
    [spec EXCEPT !.query_id = FreeCandidate(spec.query_id \o <<"inverse">>, 1, existing_ids),
                 !.orientation = "inverse",
                 !.notes = ensure_inverse_notes(spec.notes, guidance_hint),
                 !.search_queries = ReplacedQueries(spec)]

\* longest batch handed to expand_with_inverse_specs
MaxBatch == 2

QueryIds == {<<"a">>, <<"a", "inverse">>, <<"a", "inverse", "2">>}

RawLevels == {"L3", "l4", "L6"}

RawOrientations == {"positive", "", " Inverse", "weird"}

InverseSpecs ==
    [query_id : QueryIds, level : RawLevels, orientation : RawOrientations,
     notes : {NoneNotes, <<"h1">>}, search_queries : {<<"a">>}]
    \cup
    [query_id : QueryIds, level : {"L3"}, orientation : {"positive", " Inverse"},
     notes : {NoneNotes}, search_queries : {<<"a", "b">>}]

InitInverse ==
    \E batch_specs \in UNION { [1 .. n -> InverseSpecs] : n \in 0 .. MaxBatch } :
        inv = [pc |-> "loop", specs |-> batch_specs, i |-> 1, expanded |-> <<>>,
               seen_ids |-> { batch_specs[k].query_id : k \in 1 .. Len(batch_specs) },
               value |-> <<>>, metadata |-> <<>>]

\* inverse_utils.py:69-83, the body of the loop for one specification
ExpandNext ==
    /\ inv.pc = "loop"
    /\ inv.i <= Len(inv.specs)
    /\ LET spec == inv.specs[inv.i]
           orientation == normalized_orientation(spec.orientation)
           inverse_spec == build_inverse_spec(spec, inv.seen_ids)
       IN  inv' = IF orientation = Invalid
                     THEN [inv EXCEPT !.pc = "raised", !.expanded = Append(@, spec)]
                  ELSE IF orientation # "positive"
                     THEN [inv EXCEPT !.i = @ + 1, !.expanded = Append(@, spec)]
                  ELSE [inv EXCEPT !.i = @ + 1,
                                   !.expanded = @ \o <<spec, inverse_spec>>,
                                   !.seen_ids = @ \cup {inverse_spec.query_id}]
    /\ UNCHANGED nonInverseVars

\* inverse_utils.py:84
ReturnExpanded ==
    /\ inv.pc = "loop"
    /\ inv.i > Len(inv.specs)
    /\ inv' = [inv EXCEPT !.pc = "returned", !.value = inv.expanded]
    /\ UNCHANGED nonInverseVars

\* spec.py:115-124, to_metadata on every specification of the returned list:
\* its level and orientation, or the ValueError of either
ToMetadata ==
    /\ inv.pc = "returned"
    /\ inv' = [inv EXCEPT
                  !.pc = "described",
                  !.metadata =
                      [k \in 1 .. Len(inv.value) |->
                          [level |-> normalized_level(inv.value[k].level),
                           orientation |-> normalized_orientation(inv.value[k].orientation)]]]
    /\ UNCHANGED nonInverseVars

NextInverse == ExpandNext \/ ReturnExpanded \/ ToMetadata

InverseInit ==
    InitInverse /\ IdleBatch /\ IdleSearch /\ IdleRelax /\ IdleBundle /\ IdleNotes /\ IdleNormalize /\ IdleOthers

SpecInverse == InverseInit /\ [][NextInverse]_vars

-----------------------------------------------------------------------------
(***************************************************************************)
(* _post_process                                                           *)
(*                                                                         *)
(* A text is a sequence of atoms. "G" and "g" are the word Ground in two   *)
(* letter cases, "T" the word Truth, "SP" a blank, "REF" the public term   *)
(* that replaces Ground Truth; "TR" is a training term and "VAL" its       *)
(* replacement; "IN" is the term for internal material, "CO" the word for  *)
(* company before it, "PUB" their replacement; "C1" and "C2" are the       *)
(* beginning and the end of the clause on internal material, "GUARD" the   *)
(* resource and time guardrail; "." is a full stop and "X" any other       *)
(* character, such as a Chinese one. "U1", "UH", "U2", "U3" are URLs,      *)
(* "PT" and "OT" titles, ":" a colon.                                      *)
(***************************************************************************)
\* a text field the generation output does not have
Absent == <<"absent">>

\* the generation output has no key query_id
AbsentId == "absent"

RECURSIVE SkipBlanks(_, _)
\* \s* from place i on
SkipBlanks(s, i) == IF i <= Len(s) /\ s[i] = "SP" THEN SkipBlanks(s, i + 1) ELSE i

\* the last place of the match of Ground\s*Truth (any letter case) that begins
\* at place i, or 0
TermEnd(s, i) ==
    IF s[i] \in {"G", "g"}
       THEN LET j == SkipBlanks(s, i + 1)
            IN  IF j <= Len(s) /\ s[j] = "T" THEN j ELSE 0
       ELSE 0

RECURSIVE ReplaceBounded(_, _)
\* a replacement of the term that needs a blank or an end of the text on both
\* its sides (\bGround\s*Truth\b among characters that all count as letters)
ReplaceBounded(s, i) ==
    IF i > Len(s) THEN <<>>
    ELSE LET e == TermEnd(s, i)
         IN  IF e # 0 /\ (i = 1 \/ s[i - 1] = "SP") /\ (e = Len(s) \/ s[e + 1] = "SP")
                THEN <<"REF">> \o ReplaceBounded(s, e + 1)
                ELSE <<s[i]>> \o ReplaceBounded(s, i + 1)

RECURSIVE Replace(_, _)
\* agent.py:825-827, re.sub(r"Ground\s*Truth", ..., flags=re.IGNORECASE) from place i on
Replace(s, i) ==
    IF i > Len(s) THEN <<>>
    ELSE LET e == TermEnd(s, i)
         IN  IF e # 0 THEN <<"REF">> \o Replace(s, e + 1)
             ELSE <<s[i]>> \o Replace(s, i + 1)

RECURSIVE replace_text(_)
\* agent.py:733-749, the first pattern: (company) internal material
replace_text(s) ==
    IF s = <<>> THEN <<>>
    ELSE IF Len(s) >= 2 /\ s[1] = "CO" /\ s[2] = "IN"
            THEN <<"PUB">> \o replace_text(SubSeq(s, 3, Len(s)))
         ELSE IF s[1] = "IN" THEN <<"PUB">> \o replace_text(Tail(s))
         ELSE <<s[1]>> \o replace_text(Tail(s))

RECURSIVE sanitize_first_term(_)
\* a rule for the training term that rewrites only its first occurrence
sanitize_first_term(s) ==
    IF s = <<>> THEN <<>>
    ELSE IF s[1] = "TR" THEN <<"VAL">> \o Tail(s)
         ELSE <<s[1]>> \o sanitize_first_term(Tail(s))

\* agent.py:565-583, the rule for the training term
sanitize_text(s) == [i \in 1 .. Len(s) |-> IF s[i] = "TR" THEN "VAL" ELSE s[i]]

\* the URLs of the model and their hosts (urlparse(u).netloc.lower())
UrlAtoms == {"U1", "UH", "U2", "U3"}
HostOf(u) == CASE u \in {"U1", "UH"} -> "h1" [] u = "U2" -> "h2" [] u = "U3" -> "h3" [] OTHER -> ""

\* agent.py:672-673, the URLs found in a text
UrlsIn(text) == { text[i] : i \in { j \in 1 .. Len(text) : text[j] \in UrlAtoms } }

\* agent.py:675-678: the entry is dropped
DropEntry(text, primary) ==
    \/ primary.url \in UrlsIn(text)
    \/ HostOf(primary.url) # "" /\ HostOf(primary.url) \in { HostOf(u) : u \in UrlsIn(text) }
    \/ primary.title # <<>> /\ Contains(text, primary.title)

\* number of references the backfill looks at and of entries it adds, agent.py:684-695
BackfillLimit == 3

RECURSIVE Backfill(_, _, _)
\* agent.py:684-695
Backfill(refs, primary, kept) ==
    IF refs = <<>> \/ Len(kept) >= BackfillLimit THEN kept
    ELSE LET ref == Head(refs)
         IN  IF ref.url = "" \/ ref.url = primary.url
                \/ (HostOf(primary.url) # "" /\ HostOf(ref.url) = HostOf(primary.url))
                THEN Backfill(Tail(refs), primary, kept)
                ELSE Backfill(Tail(refs), primary,
                              Append(kept, (IF ref.title # <<>> THEN ref.title ELSE <<ref.url>>)
                                              \o <<":", "SP", ref.url>>))

\* agent.py:648-702
drop_primary_from_provided_materials(payload) ==
    IF payload.primary.url = "" THEN payload
    ELSE LET kept == SelectSeq(payload.provided_materials,
                               LAMBDA text : ~DropEntry(text, payload.primary))
         IN  [payload EXCEPT !.provided_materials =
                 IF kept = <<>>
                    THEN Backfill(FirstN(payload.references, BackfillLimit), payload.primary, <<>>)
                    ELSE kept]

\* a scrubbing that replaces the term only where blanks or the ends of the text bound it
scrub_bounded(s) == ReplaceBounded(s, 1)

\* agent.py:825-827
scrub(s) == Replace(s, 1)

\* agent.py:819-909, on the fields of the model; the ground_truth object is left alone
scrub_public_gt_terms(payload) ==
    [payload EXCEPT !.notes = IF @ = Absent THEN @ ELSE scrub(@),
                    !.task_objectives = [i \in 1 .. Len(@) |-> scrub(@[i])],
                    !.summary = IF @ = Absent THEN @ ELSE scrub(@),
                    !.allowed_external_research = IF @ = Absent THEN @ ELSE scrub(@),
                    !.provided_materials = [i \in 1 .. Len(@) |-> scrub(@[i])]]

\* the clause on internal material, agent.py:785; it ends with a full stop
InternalClause == <<"C1", "CO", "IN", "C2">>

\* agent.py:789, existing.endswith of a full stop or a semicolon
EndsSentence(existing) == existing # <<>> /\ existing[Len(existing)] \in {".", "C2"}

\* agent.py:726-817, on the fields of the model
sanitize_internal_scope(payload, context_internal) ==
    IF context_internal THEN payload
    ELSE LET existing == IF payload.allowed_external_research = Absent
                             THEN Absent
                             ELSE replace_text(payload.allowed_external_research)
         IN  [payload EXCEPT
                 !.notes = IF @ = Absent THEN @ ELSE replace_text(@),
                 !.task_objectives = [i \in 1 .. Len(@) |-> replace_text(@[i])],
                 !.summary = IF @ = Absent THEN @ ELSE replace_text(@),
                 !.provided_materials = [i \in 1 .. Len(@) |-> replace_text(@[i])],
                 !.allowed_external_research =
                     IF existing = Absent THEN InternalClause
                     ELSE IF Contains(existing, InternalClause) THEN existing
                     ELSE existing \o (IF EndsSentence(existing) THEN <<>> ELSE <<"SP">>)
                                   \o InternalClause]

\* the guardrail appended to the notes of an L4 payload, agent.py:637-645
GuardrailNotes(notes) ==
    StripText(StripText(IF notes = Absent THEN <<>> ELSE notes) \o <<"SP", "SP", "GUARD">>)

\* agent.py:554-645, on the fields of the model
enforce_sop_compliance(payload) ==
    IF payload.level # "L4" THEN payload
    ELSE [payload EXCEPT !.task_objectives = [i \in 1 .. Len(@) |-> sanitize_text(@[i])],
                         !.summary = IF @ = Absent THEN @ ELSE sanitize_text(@),
                         !.notes = GuardrailNotes(@)]

\* the default summary of the standard answer, agent.py:512-518
DefaultSummary == <<"X", "G", "SP", "T", "X">>

\* the default usage notes of the ground_truth object, agent.py:491-497
DefaultUsageNotes == <<"X", "G", "SP", "T">>

\* agent.py:503-509, the results that are no ground truth
References(all_results, bundle) ==
    SelectSeq(all_results,
              LAMBDA r : r.url # bundle.primary.url
                         /\ \A k \in 1 .. Len(bundle.supporting) : r.url # bundle.supporting[k])

\* agent.py:464-468 and 485-518, the fields set before the four stages
Backfilled(raw_output, spec, bundle, all_results) ==
    [raw_output EXCEPT
        !.query_id = IF @ = AbsentId THEN spec.query_id ELSE @,
        !.level = normalized_level(spec.level),
        !.orientation = normalized_orientation(spec.orientation),
        !.primary = bundle.primary,
        !.usage_notes = IF @ = Absent THEN DefaultUsageNotes ELSE @,
        !.references = References(all_results, bundle),
        !.summary = IF @ = Absent THEN DefaultSummary ELSE @]

\* agent.py:452-551
post_process(raw_output, spec, context_internal, bundle, all_results) ==
    enforce_sop_compliance(
        sanitize_internal_scope(
            scrub_public_gt_terms(
                drop_primary_from_provided_materials(
                    Backfilled(raw_output, spec, bundle, all_results))),
            context_internal))

\* longest notes of a generation output, in atoms
MaxText == 3
\* longest list of provided materials of a generation output
MaxMaterials == 2
\* longest list of search results handed to _post_process
MaxAllResults == 2

TextAtoms == {"G", "g", "T", "SP", "TR", "IN", "X"}

Texts == UNION { [1 .. n -> TextAtoms] : n \in 0 .. MaxText }

\* the search results: the primary, a page on its host, a mirror elsewhere
\* that carries the primary's title, and another page
SearchHits ==
    { [url |-> "U1", title |-> <<"PT">>],
      [url |-> "UH", title |-> <<"OT">>],
      [url |-> "U2", title |-> <<"PT", "X">>],
      [url |-> "U3", title |-> <<"G", "T">>] }

AllResults ==
    { l \in UNION { [1 .. n -> SearchHits] : n \in 0 .. MaxAllResults } :
        \A i, j \in 1 .. Len(l) : i # j => l[i].url # l[j].url }

\* the bundles: the primary with or without a supporting source, and the
\* fallback primary that has no URL (ground_truth.py:145-147)
Bundles ==
    { [primary |-> [url |-> "U1", title |-> <<"PT">>], supporting |-> <<>>],
      [primary |-> [url |-> "U1", title |-> <<"PT">>], supporting |-> <<"U3">>],
      [primary |-> [url |-> "", title |-> <<"PT">>], supporting |-> <<>>] }

\* entries of provided_materials: the primary by URL, a page of its host, the
\* primary by title, another page, plain text with the internal term
MaterialEntries ==
    { <<"X", "U1">>, <<"UH">>, <<"PT", "X">>, <<"X", "U3">>, <<"G", "T", "IN">> }

MaterialLists == UNION { [1 .. n -> MaterialEntries] : n \in 0 .. MaxMaterials }

\* the specifications: level and orientation as written (spec.py:70, 77)
NormalizeSpecs == [query_id : {"q1"}, level : {"L3", "l4"}, orientation : {"", " Inverse"}]

\* a generation output
RawOutput(query_id, notes, summary, allowed_external_research, provided_materials, usage_notes) ==
    [query_id |-> query_id, level |-> "L9", orientation |-> "weird", notes |-> notes,
     summary |-> summary, allowed_external_research |-> allowed_external_research,
     provided_materials |-> provided_materials, usage_notes |-> usage_notes,
     task_objectives |-> <<>>,
     primary |-> [url |-> "", title |-> <<>>], references |-> <<>>]

\* the calls whose generation output ranges over the texts
TextCalls ==
    { [pc |-> "first", raw_output |-> RawOutput(AbsentId, notes, summary, aer, <<>>, Absent),
       spec |-> [query_id |-> "q1", level |-> level, orientation |-> ""],
       context_internal |-> internal, bundle |-> bundle, all_results |-> <<>>] :
        notes \in Texts \cup {Absent},
        summary \in {Absent, <<"TR", "g", "T">>},
        aer \in {Absent, <<"X", "IN">>, <<"X", ".">>},
        level \in {"L3", "l4"}, internal \in BOOLEAN,
        bundle \in { b \in Bundles : b.primary.url # "" /\ b.supporting = <<>> } }

\* the calls whose generation output ranges over the lists of materials
MaterialCalls ==
    { [pc |-> "first",
       raw_output |-> RawOutput(AbsentId, <<"X">>, Absent, Absent, materials, Absent),
       spec |-> [query_id |-> "q1", level |-> level, orientation |-> ""],
       context_internal |-> FALSE, bundle |-> bundle, all_results |-> all_results] :
        materials \in MaterialLists, level \in {"L3", "l4"},
        bundle \in Bundles, all_results \in AllResults }

\* the calls whose generation output ranges over the identifiers and the
\* wording of the ground_truth object
IdentifiedCalls ==
    { [pc |-> "first",
       raw_output |-> RawOutput(query_id, <<"X">>, Absent, Absent, <<>>, usage_notes),
       spec |-> spec, context_internal |-> internal, bundle |-> bundle,
       all_results |-> <<>>] :
        query_id \in {AbsentId, "", "q1", "q9"},
        usage_notes \in {Absent, <<"g", "SP", "T", "IN", "TR">>},
        spec \in NormalizeSpecs, internal \in BOOLEAN,
        bundle \in { b \in Bundles : b.primary.url # "" /\ b.supporting = <<>> } }

\* longest list of task objectives of a generation output
MaxObjectives == 2

\* objectives: with no training term, with one, with two, and with the other
\* terms the stages rewrite
ObjectiveTexts ==
    { <<"X">>, <<"TR">>, <<"X", "TR", "TR">>, <<"g", "T", "TR">>, <<"IN", "TR">> }

ObjectiveLists == UNION { [1 .. n -> ObjectiveTexts] : n \in 0 .. MaxObjectives }

\* the calls whose generation output ranges over the task objectives and over
\* notes without and with the guardrail
ObjectiveCalls ==
    { [pc |-> "first",
       raw_output |-> [RawOutput(AbsentId, notes, Absent, Absent, <<>>, Absent)
                          EXCEPT !.task_objectives = objectives],
       spec |-> [query_id |-> "q1", level |-> level, orientation |-> ""],
       context_internal |-> internal, bundle |-> bundle, all_results |-> <<>>] :
        objectives \in ObjectiveLists,
        notes \in {Absent, <<"X", "SP">>, <<"GUARD">>, <<"X", "GUARD", "X">>},
        level \in {"L3", "l4"}, internal \in BOOLEAN,
        bundle \in { b \in Bundles : b.primary.url # "" /\ b.supporting = <<>> } }

InitNormalize == pp \in TextCalls \cup MaterialCalls \cup IdentifiedCalls \cup ObjectiveCalls

\* agent.py:321-329, the call of _post_process on the generation output
PostProcess ==
    /\ pp.pc = "first"
    /\ pp' = [pc |-> "second", raw_output |-> pp.raw_output, spec |-> pp.spec,
              context_internal |-> pp.context_internal, bundle |-> pp.bundle,
              all_results |-> pp.all_results,
              first |-> post_process(pp.raw_output, pp.spec, pp.context_internal,
                                     pp.bundle, pp.all_results)]
    /\ UNCHANGED nonNormalizeVars

\* agent.py:452-551 on its own result, with the same other arguments
PostProcessAgain ==
    /\ pp.pc = "second"
    /\ pp' = [pc |-> "done", raw_output |-> pp.raw_output, spec |-> pp.spec,
              context_internal |-> pp.context_internal, bundle |-> pp.bundle,
              all_results |-> pp.all_results, first |-> pp.first,
              second |-> post_process(pp.first, pp.spec, pp.context_internal,
                                      pp.bundle, pp.all_results)]
    /\ UNCHANGED nonNormalizeVars

NextNormalize == PostProcess \/ PostProcessAgain

NormalizeInit ==
    InitNormalize /\ IdleBatch /\ IdleSearch /\ IdleRelax /\ IdleBundle /\ IdleInverse /\ IdleNotes /\ IdleOthers

SpecNormalize == NormalizeInit /\ [][NextNormalize]_vars

-----------------------------------------------------------------------------
(***************************************************************************)
(* build_query from the generation on, statement by statement              *)
(***************************************************************************)
\* a reading of the statements that scrubs the terms after the compliance rewriting
StatementsScrubLast ==
    << "stamp_identity", "ensure_context", "consolidate", "rebuild_references",
       "ensure_defaults", "attach_metadata", "drop_primary", "sanitize_scope",
       "enforce_compliance", "scrub_terms" >>

\* the statements of _post_process in the order of the code, agent.py:464-549
Statements ==
    << "stamp_identity",       \* 464-467: query_id, level, orientation
       "ensure_context",       \* 468-483: context, context_sources
       "consolidate",          \* 485-501: the ground_truth object
       "rebuild_references",   \* 503-512: references, search_results
       "ensure_defaults",      \* 514-534: standard_answer, evaluation_guide
       "attach_metadata",      \* 536-537: sop_version, spec_metadata
       "drop_primary",         \* 540
       "scrub_terms",          \* 543
       "sanitize_scope",       \* 546
       "enforce_compliance" >> \* 549

\* agent.py:464-467
StampIdentity(payload, spec) ==
    [payload EXCEPT
        !.query_id = IF @ = AbsentId THEN spec.query_id ELSE @,
        !.level = normalized_level(spec.level),
        !.orientation = normalized_orientation(spec.orientation)]

\* agent.py:485-501
Consolidate(payload, bundle) ==
    [payload EXCEPT
        !.primary = bundle.primary,
        !.usage_notes = IF @ = Absent THEN DefaultUsageNotes ELSE @]

\* agent.py:503-512
RebuildReferences(payload, bundle, all_results) ==
    [payload EXCEPT !.references = References(all_results, bundle)]

\* agent.py:514-534
EnsureDefaults(payload) ==
    [payload EXCEPT !.summary = IF @ = Absent THEN DefaultSummary ELSE @]

\* the payload after a statement of _post_process
AfterStatement(statement, payload, call) ==
    CASE statement = "stamp_identity" -> StampIdentity(payload, call.spec)
      [] statement = "consolidate" -> Consolidate(payload, call.bundle)
      [] statement = "rebuild_references" ->
            RebuildReferences(payload, call.bundle, call.all_results)
      [] statement = "ensure_defaults" -> EnsureDefaults(payload)
      [] statement = "drop_primary" -> drop_primary_from_provided_materials(payload)
      [] statement = "scrub_terms" -> scrub_public_gt_terms(payload)
      [] statement = "sanitize_scope" -> sanitize_internal_scope(payload, call.context_internal)
      [] statement = "enforce_compliance" -> enforce_sop_compliance(payload)
      [] OTHER -> payload

\* agent.py:331-421, the template payload handed to _post_process
offline_payload(spec) ==
    RawOutput(spec.query_id, <<"X">>, Absent, <<"X", ".">>, <<>>, Absent)

\* the calls of build_query at the point of the generation
InitStages ==
    \E call \in ObjectiveCalls \cup IdentifiedCalls, fallback \in BOOLEAN :
        norm = [pc |-> "generate", call |-> call, fallback_to_template |-> fallback,
                path |-> "none", payload |-> call.raw_output, next |-> 1,
                done |-> <<>>, normalized |-> 0]

\* agent.py:295 and 321: run_json_completion returns the generation output
GenerationReturns ==
    /\ norm.pc = "generate"
    /\ norm' = [norm EXCEPT !.pc = "post_process", !.path = "generated",
                            !.normalized = @ + 1]
    /\ UNCHANGED nonStagesVars

\* agent.py:296-312 and 421: LLMError with the template fallback switched on
GenerationFailsToTemplate ==
    /\ norm.pc = "generate"
    /\ norm.fallback_to_template
    /\ norm' = [norm EXCEPT !.pc = "post_process", !.path = "template",
                            !.payload = offline_payload(norm.call.spec),
                            !.normalized = @ + 1]
    /\ UNCHANGED nonStagesVars

\* agent.py:313-319: LLMError with the fallback switched off
GenerationFailsRaise ==
    /\ norm.pc = "generate"
    /\ ~norm.fallback_to_template
    /\ norm' = [norm EXCEPT !.pc = "raised"]
    /\ UNCHANGED nonStagesVars

\* agent.py:464-549, the next statement of _post_process
RunStatement ==
    /\ norm.pc = "post_process"
    /\ norm.next <= Len(Statements)
    /\ norm' = [norm EXCEPT
                  !.payload = AfterStatement(Statements[norm.next], @, norm.call),
                  !.done = Append(@, Statements[norm.next]),
                  !.next = @ + 1]
    /\ UNCHANGED nonStagesVars

\* agent.py:551 and 329 (421 on the template path)
ReturnPayload ==
    /\ norm.pc = "post_process"
    /\ norm.next > Len(Statements)
    /\ norm' = [norm EXCEPT !.pc = "returned"]
    /\ UNCHANGED nonStagesVars

NextStages ==
    \/ GenerationReturns
    \/ GenerationFailsToTemplate
    \/ GenerationFailsRaise
    \/ RunStatement
    \/ ReturnPayload

StagesInit ==
    InitStages /\ IdleBatch /\ IdleSearch /\ IdleRelax /\ IdleBundle /\ IdleInverse
        /\ IdleNotes /\ IdleNormalize /\ IdleQueries /\ IdleChat

SpecStages == StagesInit /\ [][NextStages]_vars

-----------------------------------------------------------------------------
(***************************************************************************)
(* QuerySpec.search_queries                                                *)
(*                                                                         *)
(* A string is a sequence of atoms: "a" and "b" are characters of a query, *)
(* "SP" is a blank and "SEP" one of the separators ; , and their           *)
(* full-width forms. The value handed to the constructor or assigned to    *)
(* search_query is None, a string, or a list of items, each a string or    *)
(* None.                                                                   *)
(***************************************************************************)
\* Python's None as an item of a list
NoneItem == <<"None">>

RECURSIVE SplitParts(_, _)
\* spec.py:35 and 38, splitter.split: the parts between runs of separators
\* (cur is the part at work)
SplitParts(text, cur) ==
    IF text = <<>> THEN <<cur>>
    ELSE IF Head(text) = "SEP"
            THEN IF Len(text) > 1 /\ text[2] = "SEP"
                    THEN SplitParts(Tail(text), cur)
                    ELSE <<cur>> \o SplitParts(Tail(text), <<>>)
         ELSE SplitParts(Tail(text), Append(cur, Head(text)))

\* spec.py:27-33 and 38-40: the parts of a string, stripped, the empty ones left out
PushedOfString(text) ==
    SelectSeq([i \in 1 .. Len(SplitParts(text, <<>>)) |-> StripText(SplitParts(text, <<>>)[i])],
              LAMBDA part : part # <<>>)

RECURSIVE PushedOfItems(_)
\* spec.py:41-50
PushedOfItems(items) ==
    IF items = <<>> THEN <<>>
    ELSE (IF Head(items) = NoneItem THEN <<>> ELSE PushedOfString(Head(items)))
            \o PushedOfItems(Tail(items))

\* spec.py:22-52, the queries before the de-duplication
Pushed(raw) ==
    CASE raw.kind = "none" -> <<>>
      [] raw.kind = "str" -> PushedOfString(raw.text)
      [] raw.kind = "list" -> PushedOfItems(raw.items)

\* a list that keeps every query, duplicates too
KeepAll(queries, seen) == queries

RECURSIVE Deduped(_, _)
\* spec.py:54-60
Deduped(queries, seen) ==
    IF queries = <<>> THEN <<>>
    ELSE IF Head(queries) \in seen THEN Deduped(Tail(queries), seen)
         ELSE <<Head(queries)>> \o Deduped(Tail(queries), seen \cup {Head(queries)})

\* spec.py:15-60
normalize_search_queries(raw) == Deduped(Pushed(raw), {})

\* longest string handed over as search_query
MaxRaw == 2
\* longest list handed over as search_query
MaxItems == 2

RawStrings == UNION { [1 .. n -> {"a", "b", "SP", "SEP"}] : n \in 0 .. MaxRaw }

ItemValues ==
    { NoneItem, <<"SP">>, <<"a">>, <<"b">>, <<"a", "SEP", "b">> }

RawValues ==
    {[kind |-> "none"]}
        \cup { [kind |-> "str", text |-> t] : t \in RawStrings }
        \cup { [kind |-> "list", items |-> l] :
                 l \in UNION { [1 .. n -> ItemValues] : n \in 0 .. MaxItems } }

\* the point before the constructor is called
InitQueries == qspec = [pc |-> "new"]

\* spec.py:86-87 and 101-105: QuerySpec(..., search_query=raw)
Construct(raw) ==
    /\ qspec.pc = "new"
    /\ LET normalized == normalize_search_queries(raw)
       IN  qspec' = IF normalized = <<>>
                       THEN [pc |-> "construction_failed", raw |-> raw]
                       ELSE [pc |-> "constructed", raw |-> raw, before |-> <<>>,
                             search_queries |-> normalized]
    /\ UNCHANGED nonQueriesVars

\* spec.py:111-113 and 101-105: spec.search_query = raw
AssignQueries(raw) ==
    /\ qspec.pc \in {"constructed", "assigned", "assignment_failed"}
    /\ LET normalized == normalize_search_queries(raw)
       IN  qspec' = IF normalized = <<>>
                       THEN [pc |-> "assignment_failed", raw |-> raw,
                             before |-> qspec.search_queries,
                             search_queries |-> qspec.search_queries]
                       ELSE [pc |-> "assigned", raw |-> raw,
                             before |-> qspec.search_queries,
                             search_queries |-> normalized]
    /\ UNCHANGED nonQueriesVars

NextQueries ==
    \/ \E raw \in RawValues : Construct(raw)
    \/ \E raw \in RawValues : AssignQueries(raw)

QueriesInit ==
    InitQueries /\ IdleBatch /\ IdleSearch /\ IdleRelax /\ IdleBundle /\ IdleInverse
        /\ IdleNotes /\ IdleNormalize /\ IdleStages /\ IdleChat

SpecQueries == QueriesInit /\ [][NextQueries]_vars

-----------------------------------------------------------------------------
(***************************************************************************)
(* OpenAIChatClient.create_chat_completion                                 *)
(*                                                                         *)
(* One call: the loop over the attempts, one request per attempt. What     *)
(* the endpoint does with a request is the input of each step.             *)
(***************************************************************************)
\* llm.py:88, the default of LLM_MAX_RETRIES, and the largest value drawn
MaxRetries == 7

\* llm.py:103
SleepTime(att) == IF 10 * (att + 1) < 60 THEN 10 * (att + 1) ELSE 60

\* llm.py:88-89: the call before its first attempt
InitChat ==
    \E max_retries \in 0 .. MaxRetries :
        chat = [pc |-> "loop", max_retries |-> max_retries, attempt |-> 0,
                requests |-> <<>>, slept |-> <<>>]

\* llm.py:92: one more request goes out
Posted(outcome) == Append(chat.requests, outcome)

\* llm.py:90: the loop has an attempt left
InLoop == chat.pc = "loop" /\ chat.attempt < chat.max_retries

\* llm.py:92-97: the response has status 2xx and an object holding choices
RequestReturns ==
    /\ InLoop
    /\ chat' = [chat EXCEPT !.pc = "returned", !.requests = Posted("choices")]
    /\ UNCHANGED nonChatVars

\* llm.py:99-111: the request times out
RequestTimesOut ==
    /\ InLoop
    /\ chat' = IF chat.attempt < chat.max_retries - 1
                  THEN [chat EXCEPT !.attempt = @ + 1,
                                    !.requests = Posted("timeout"),
                                    !.slept = Append(@, SleepTime(chat.attempt))]
                  ELSE [chat EXCEPT !.pc = "LLMError", !.requests = Posted("timeout")]
    /\ UNCHANGED nonChatVars

\* llm.py:92-93 and 112-113: the transport fails or the status is not 2xx
RequestFails ==
    /\ InLoop
    /\ \E failure \in {"connection", "status"} :
          chat' = [chat EXCEPT !.pc = "LLMError", !.requests = Posted(failure)]
    /\ UNCHANGED nonChatVars

\* llm.py:95-97: the body is an object without choices
RequestNoChoices ==
    /\ InLoop
    /\ chat' = [chat EXCEPT !.pc = "LLMError", !.requests = Posted("no_choices")]
    /\ UNCHANGED nonChatVars

\* llm.py:95-96: the body is JSON but no object (a list, null); data.get
\* raises AttributeError, which no except clause of the loop catches
RequestNotObject ==
    /\ InLoop
    /\ chat' = [chat EXCEPT !.pc = "AttributeError", !.requests = Posted("not_object")]
    /\ UNCHANGED nonChatVars

\* llm.py:90 and 116: the loop ends without an attempt
LoopExhausted ==
    /\ chat.pc = "loop"
    /\ chat.attempt >= chat.max_retries
    /\ chat' = [chat EXCEPT !.pc = "LLMError"]
    /\ UNCHANGED nonChatVars

NextChat ==
    \/ RequestReturns
    \/ RequestTimesOut
    \/ RequestFails
    \/ RequestNoChoices
    \/ RequestNotObject
    \/ LoopExhausted

ChatInit ==
    InitChat /\ IdleBatch /\ IdleSearch /\ IdleRelax /\ IdleBundle /\ IdleInverse
        /\ IdleNotes /\ IdleNormalize /\ IdleStages /\ IdleQueries

SpecChat == ChatInit /\ [][NextChat]_vars

-----------------------------------------------------------------------------
(***************************************************************************)
(* Properties of generate_batch, checked under Spec.                       *)
(***************************************************************************)
InResult(i) == \E k \in 1 .. Len(batch.value) : batch.value[k].query_id = i

\* the call for specification i returned a payload
Succeeded(i) == task[i].pc = "returned" /\ task[i].payload # NoPayload

\* the call for specification i returned None
Dropped(i) == task[i].pc = "returned" /\ task[i].payload = NoPayload

RECURSIVE SearchCalls(_, _)
\* the number of run_search calls made for cache key k by specifications 1 .. n
SearchCalls(k, n) ==
    IF n = 0 THEN 0
    ELSE SearchCalls(k, n - 1) + (IF specs[n] = k THEN task[n].searches ELSE 0)

RECURSIVE InInputOrder(_)
\* the payloads of the succeeded specifications among 1 .. n, in input order
InInputOrder(n) ==
    IF n = 0 THEN <<>>
    ELSE IF Succeeded(n) THEN Append(InInputOrder(n - 1), task[n].payload)
         ELSE InInputOrder(n - 1)

AllLLMError(log) == \A k \in 1 .. Len(log) : log[k] = "LLMError"

\* C1: with more than one worker, the miss of the cache and the write that
\* fills the entry form one critical section (no two specifications of one key
\* are between their miss and their write at once), and run_search is called
\* at most once per distinct cache key.
C1_SearchOncePerKey ==
    ~Sequential =>
        /\ \A i, j \in SpecIds :
              (i # j /\ specs[i] = specs[j]) =>
                  ~(task[i].pc \in {"search", "store"} /\ task[j].pc \in {"search", "store"})
        /\ \A k \in Keys : SearchCalls(k, Len(specs)) <= 1

\* C2: the list generate_batch returns holds exactly the payloads of the
\* specifications that succeeded, in the order of the input, whatever the
\* worker count and the order of completion.
C2_InputOrder ==
    batch.pc = "returned" => batch.value = InInputOrder(Len(specs))

\* C2 witness: a threaded batch returned two payloads although a later
\* specification had ended before an earlier one.
C2_Witness ==
    /\ batch.pc = "returned"
    /\ ~Sequential
    /\ out_of_order
    /\ Len(batch.value) >= 2

\* C3: an exception raised while one specification is processed never leaves
\* generate_batch, for any worker count, and every specification that
\* succeeded is returned.
C3_NoAbort ==
    /\ batch.pc # "raised"
    /\ batch.pc = "returned" => \A i \in SpecIds : Succeeded(i) => InResult(i)

\* C4: build_query is called at most 3 times per specification; every call
\* but the last one failed with a generation error (so the first success ends
\* the attempts); after 3 failures the specification is dropped, it is absent
\* from the result, and the batch still processes every other specification.
C4_AtMostThreeAttempts ==
    \A i \in SpecIds :
        LET log == task[i].build_log
        IN  /\ Len(log) <= 3
            /\ AllLLMError(SubSeq(log, 1, Len(log) - 1))
            /\ task[i].pc = "build" => AllLLMError(log)
            /\ (Len(log) = 3 /\ AllLLMError(log)) =>
                  /\ Dropped(i)
                  /\ batch.pc = "returned" =>
                        /\ ~InResult(i)
                        /\ \A j \in SpecIds : Ended(j) /\ (Succeeded(j) => InResult(j))

\* C4 witness: a returned batch in which one specification failed 3 times and
\* a later one is in the result.
C4_Witness ==
    /\ batch.pc = "returned"
    /\ \E i, j \in SpecIds :
          /\ i < j
          /\ Len(task[i].build_log) = 3 /\ AllLLMError(task[i].build_log)
          /\ InResult(j)

C6_PackagingNonFatal ==
    \A i \in SpecIds :
        task[i].exc = "OSError" =>
            /\ batch.pc # "raised"
            /\ batch.pc = "returned" =>
                  \E k \in 1 .. Len(batch.value) :
                      batch.value[k].query_id = i /\ batch.value[k].package_path = 0

-----------------------------------------------------------------------------
(***************************************************************************)
(* Properties of run_search, checked under SpecSearch.                     *)
(***************************************************************************)
\* the de-duplication key of a candidate as the data model states it: the
\* URL, or title and snippet when the URL is absent
CandidateKey(c) == IF c.url = "" THEN <<"text", c.title, c.snippet>> ELSE <<"url", c.url>>

NoSharedKey(list) ==
    \A i, j \in 1 .. Len(list) : i # j => CandidateKey(list[i]) # CandidateKey(list[j])

IsPrefix(a, b) == Len(a) <= Len(b) /\ SubSeq(b, 1, Len(a)) = a

\* C8: run_search returns at most target_count candidates, no two of them
\* with the same de-duplication key, in the order of first discovery: the
\* aggregate only ever grows at its end, by candidates whose key is new, and
\* the returned list is its beginning.
C8_DedupTruncated ==
    /\ [](search.pc = "returned" =>
            /\ Len(search.value) <= num_results
            /\ search.value # <<>>
            /\ NoSharedKey(search.value)
            /\ IsPrefix(search.value, aggregated_results))
    /\ [][/\ IsPrefix(aggregated_results, aggregated_results')
          /\ NoSharedKey(aggregated_results')]_vars

\* C8 witness: run_search returned target_count = 2 candidates, the second
\* one, without URL, found by the second base query.
C8_Witness ==
    /\ search.pc = "returned"
    /\ num_results = 2
    /\ last_sent.base_idx = 2 /\ last_sent.agg_before = 1
    /\ Len(search.value) = 2
    /\ search.value[1].url = "u1" /\ search.value[2].url = ""

\* C9 (as claimed): a later base query is sent to the backend only when the
\* base queries before it yielded no candidate.
C9_PartialShortCircuits ==
    last_sent.base_idx > 1 => last_sent.agg_before = 0

\* C9 (amended): partial success does not end the search: a later base query
\* is sent only while the aggregate holds fewer than target_count candidates,
\* and run_search returns fewer than target_count candidates only after it
\* has sent every base query.
C9_StopsAtTargetOnly ==
    /\ last_sent.base_idx > 1 => last_sent.agg_before < num_results
    /\ (search.pc = "returned" /\ Len(search.value) < num_results) =>
          last_sent.base_idx = Len(rs_spec.search_queries)

\* C9 witness: the first base query yielded one candidate of the two asked
\* for, and the second base query was sent.
C9_Witness ==
    /\ search.pc = "returned"
    /\ num_results = 2
    /\ last_sent.base_idx = 2 /\ last_sent.agg_before = 1

-----------------------------------------------------------------------------
(***************************************************************************)
(* Properties of query relaxation, checked under SpecRelax.                *)
(***************************************************************************)
Operators == {"FT", "SITE", "YR"}

\* C11: every variant run_search sends other than the verbatim one holds no
\* filetype: operator, no site: filter and no year range.
C11_RelaxedVariantHasNoOperator ==
    relax.variant_index > 1 =>
        \A i \in 1 .. Len(relax.query_variant) : relax.query_variant[i] \notin Operators

-----------------------------------------------------------------------------
(***************************************************************************)
(* Properties of select_ground_truth_bundle, checked under SpecBundle.     *)
(***************************************************************************)
\* C12: the URL of the primary of a returned bundle is the URL of none of its
\* supporting entries, on the main path, the refinement path and the fallback.
C12_PrimaryNotSupporting ==
    gt.pc = "returned" =>
        \A i \in 1 .. Len(gt.supporting) : gt.supporting[i] # gt.primary

\* the document rank of a URL: 0 direct PDF, 1 source-control host, 2 model
\* hub, 5 anything else
DocumentRank(url) ==
    IF url \in {"p", "pp"} THEN 0 ELSE IF url = "g" THEN 1 ELSE IF url = "h" THEN 2 ELSE 5

\* the places of the candidates the primary is chosen among: the viable
\* results that answer the probe when one does, all viable results otherwise
Pool ==
    LET viable == { i \in 1 .. Len(gt.results) : is_viable_ground_truth(gt.results[i]) }
        probed == { i \in viable : gt.results[i] \in gt.reachable }
    IN  IF probed # {} THEN probed ELSE viable

\* candidate at place i comes before the candidate at place j
Before(i, j) ==
    LET a == gt.results[i]
        b == gt.results[j]
    IN  \/ DocumentRank(a) < DocumentRank(b)
        \/ DocumentRank(a) = DocumentRank(b) /\ UrlLen(a) < UrlLen(b)
        \/ DocumentRank(a) = DocumentRank(b) /\ UrlLen(a) = UrlLen(b) /\ i < j

\* C13: with a viable candidate among the results, the primary is the least
\* candidate of the pool by document rank, then URL length, then place; a PDF
\* is chosen over any other page when the probe treats the two alike.
C13_PrimaryIsMinimal ==
    (gt.pc = "returned" /\ Pool # {}) =>
        /\ gt.path = "main"
        /\ \E k \in Pool :
              /\ gt.primary = gt.results[k]
              /\ \A j \in Pool \ {k} : Before(k, j)
        /\ \A i, j \in 1 .. Len(gt.results) :
              ( /\ DocumentRank(gt.results[i]) = 0
                /\ is_viable_ground_truth(gt.results[j])
                /\ (gt.results[i] \in gt.reachable) = (gt.results[j] \in gt.reachable) )
              => gt.primary # gt.results[j] \/ DocumentRank(gt.results[j]) = 0

\* C13 witness: an HTML page found first and a longer PDF URL found second,
\* both answering the probe: the PDF is the primary.
C13_Witness ==
    /\ gt.pc = "returned"
    /\ gt.results = <<"w", "pp">>
    /\ gt.reachable = {"w", "pp"}
    /\ gt.primary = "pp"
    /\ gt.supporting = <<"w">>

\* the place of the primary among the results
PrimaryPlace ==
    CHOOSE k \in 1 .. Len(gt.results) :
        /\ gt.results[k] = gt.primary
        /\ \A j \in 1 .. k - 1 : gt.results[j] # gt.primary

\* the places of the viable results other than the primary, in the order of
\* the results
SupportingPlaces ==
    SelectSeq([k \in 1 .. Len(gt.results) |-> k],
              LAMBDA k : k # PrimaryPlace /\ is_viable_ground_truth(gt.results[k]))

\* C24: when the primary is one of the given results, the supporting list is
\* the first max_supporting (3) viable results other than the primary, in the
\* order of the results: never more than max_supporting entries and never an
\* entry that is not viable.
C24_SupportingFirstViable ==
    (gt.pc = "returned" /\ gt.path \in {"main", "fallback"}) =>
        /\ Len(gt.supporting) <= 3
        /\ Len(gt.supporting) = IF Len(SupportingPlaces) < 3 THEN Len(SupportingPlaces) ELSE 3
        /\ \A k \in 1 .. Len(gt.supporting) :
              /\ gt.supporting[k] = gt.results[SupportingPlaces[k]]
              /\ is_viable_ground_truth(gt.supporting[k])

\* five results, four of them viable besides the primary: the PDF found
\* second is the primary and the last viable result is left out
C24_Witness ==
    /\ gt.pc = "returned"
    /\ gt.path = "main"
    /\ gt.results = <<"w", "p", "g", "h", "x">>
    /\ gt.primary = "p"
    /\ gt.supporting = <<"w", "g", "h">>

\* the viable results, and those of them that answer the probe
ViableResults == { gt.results[k] : k \in { j \in 1 .. Len(gt.results) : is_viable_ground_truth(gt.results[j]) } }
ProbedResults == ViableResults \cap gt.reachable

\* C25: select_ground_truth_bundle fails when the list of results is empty
\* and in no other case; a returned bundle has its primary from the first
\* step of the chain that yields something: the viable results that answer
\* the probe, the viable results, the first viable hit of a refined search,
\* the very first result.
C25_PrimaryFromFirstNonEmptyStep ==
    /\ gt.pc = "raised" => gt.results = <<>>
    /\ gt.pc = "returned" =>
          /\ gt.results # <<>>
          /\ ProbedResults # {} => (gt.path = "main" /\ gt.primary \in ProbedResults)
          /\ (ProbedResults = {} /\ ViableResults # {}) =>
                (gt.path = "main" /\ gt.primary \in ViableResults)
          /\ ViableResults = {} => gt.path \in {"refined", "fallback"}
          /\ gt.path = "refined" =>
                /\ Viable(gt.refined) # <<>>
                /\ gt.primary = Viable(gt.refined)[1]
          /\ gt.path = "fallback" => (gt.pairs = 0 /\ gt.primary = gt.results[1])

-----------------------------------------------------------------------------
(***************************************************************************)
(* Properties of expand_with_inverse_specs, checked under SpecInverse.     *)
(***************************************************************************)
\* the call of expand_with_inverse_specs returned
Expanded == inv.pc \in {"returned", "described"}

\* input k is of positive orientation
IsPositive(k) == inv.specs[k].orientation \in {"positive", ""}

\* the number of entries the inputs before input k account for
Offset(k) == (k - 1) + Cardinality({ j \in 1 .. k - 1 : IsPositive(j) })

\* the places of the clones in the returned list
ClonePlaces == { Offset(k) + 2 : k \in { j \in 1 .. Len(inv.specs) : IsPositive(j) } }

InputIds == { inv.specs[k].query_id : k \in 1 .. Len(inv.specs) }

\* id has the form {base}-inverse or {base}-inverse-{n}
InverseIdOf(id, base) ==
    \/ id = base \o <<"inverse">>
    \/ \E n \in 2 .. 2 * Len(inv.specs) + 1 : id = base \o <<"inverse", ToString(n)>>

\* C14: the returned list holds every input in order, each positive input
\* followed by exactly one inverse clone, each inverse input once and
\* unchanged; the identifier of a clone is {id}-inverse or {id}-inverse-{n}
\* and is neither an input identifier nor the identifier of another clone.
C14_OneCloneUniqueId ==
    Expanded =>
        /\ Len(inv.value) = Offset(Len(inv.specs) + 1)
        /\ \A k \in 1 .. Len(inv.specs) :
              /\ inv.value[Offset(k) + 1] = inv.specs[k]
              /\ IsPositive(k) =>
                    /\ inv.value[Offset(k) + 2].orientation = "inverse"
                    /\ InverseIdOf(inv.value[Offset(k) + 2].query_id, inv.specs[k].query_id)
        /\ \A c \in ClonePlaces :
              /\ inv.value[c].query_id \notin InputIds
              /\ \A d \in ClonePlaces \ {c} : inv.value[d].query_id # inv.value[c].query_id

\* C14 witness: a positive specification "a" and an inverse specification
\* "a-inverse": the clone of "a" is "a-inverse-2", and "a-inverse" follows
\* unchanged and without a clone.
C14_Witness ==
    /\ inv.pc = "returned"
    /\ Len(inv.specs) = 2
    /\ inv.specs[1].query_id = <<"a">> /\ inv.specs[1].orientation = "positive"
    /\ inv.specs[2].query_id = <<"a", "inverse">> /\ inv.specs[2].orientation = " Inverse"
    /\ Len(inv.value) = 3
    /\ inv.value[2].query_id = <<"a", "inverse", "2">>
    /\ inv.value[3] = inv.specs[2]

\* the batch holds a specification whose orientation is in set
SomeOrientationIn(set) == \E k \in 1 .. Len(inv.specs) : inv.specs[k].orientation \in set

\* C16 (as claimed): normalized_level fails for every level that is not one
\* of L3, L4, L5 and normalized_orientation for every orientation that is not
\* one of positive, inverse; expand_with_inverse_specs fails, with no output,
\* when a specification has such an orientation.
C16_RejectsValuesOutside ==
    /\ inv.pc = "described" =>
          \A k \in 1 .. Len(inv.value) :
              /\ inv.value[k].level \notin {"L3", "L4", "L5"} => inv.metadata[k].level = Invalid
              /\ inv.value[k].orientation \notin {"positive", "inverse"} =>
                    inv.metadata[k].orientation = Invalid
    /\ (inv.pc # "loop" /\ SomeOrientationIn(RawOrientations \ {"positive", "inverse"})) =>
          inv.pc = "raised" /\ inv.value = <<>>

\* C16 (amended): normalized_level fails exactly for the levels whose
\* upper-case form is not one of L3, L4, L5 (here L6; l4 is taken as L4), and
\* normalized_orientation exactly for the orientations whose trimmed
\* lower-case form is not one of positive, inverse (here weird; an empty
\* orientation is taken as positive); expand_with_inverse_specs fails, with
\* no output, exactly when a specification has such an orientation.
C16_RejectsUnrecognized ==
    /\ inv.pc = "described" =>
          \A k \in 1 .. Len(inv.value) :
              /\ inv.metadata[k].level = Invalid <=> inv.value[k].level = "L6"
              /\ inv.value[k].level = "l4" => inv.metadata[k].level = "L4"
              /\ inv.metadata[k].orientation \in {"positive", "inverse"}
              /\ inv.value[k].orientation = "" => inv.metadata[k].orientation = "positive"
    /\ inv.pc \in {"returned", "described"} => ~SomeOrientationIn({"weird"})
    /\ inv.pc = "raised" =>
          /\ inv.specs[inv.i].orientation = "weird"
          /\ inv.value = <<>>
    /\ (inv.pc = "loop" /\ inv.i > 1) => inv.specs[inv.i - 1].orientation # "weird"

\* C16 witness: the returned specifications were described; the level L6 of
\* the first failed, the level l4 of the last was taken as L4.
C16_Witness ==
    /\ inv.pc = "described"
    /\ Len(inv.value) = 3
    /\ inv.value[1].level = "L6" /\ inv.metadata[1].level = Invalid
    /\ inv.value[3].level = "l4" /\ inv.metadata[3].level = "L4"
    /\ inv.value[3].orientation = " Inverse" /\ inv.metadata[3].orientation = "inverse"

\* C26: an inverse clone differs from the positive specification it is built
\* from in identifier, orientation and notes only: its level and its whole
\* ordered list of search queries, of one entry or more, are the original's.
C26_CloneKeepsOtherFields ==
    Expanded =>
        \A k \in 1 .. Len(inv.specs) :
            IsPositive(k) =>
                /\ inv.value[Offset(k) + 2].level = inv.specs[k].level
                /\ inv.value[Offset(k) + 2].search_queries = inv.specs[k].search_queries

-----------------------------------------------------------------------------
(***************************************************************************)
(* Properties of _ensure_inverse_notes, checked under SpecNotes.           *)
(***************************************************************************)
\* the number of places of text where the hint begins
Occurrences(text) ==
    Cardinality({ k \in 0 .. Len(text) - Len(guidance_hint) :
                    SubSeq(text, k + 1, k + Len(guidance_hint)) = guidance_hint })

\* the base notes as text (no notes are the empty text)
BaseText == IF notes_call.notes = NoneNotes THEN <<>> ELSE notes_call.notes

\* C15 (as claimed): the notes of the clone hold the hint exactly once,
\* whatever the base notes, and the step applied to its own result changes
\* nothing.
C15_HintExactlyOnce ==
    /\ notes_call.pc \in {"second", "done"} => Occurrences(notes_call.once) = 1
    /\ notes_call.pc = "done" => notes_call.twice = notes_call.once

\* C15 (amended): the notes of the clone hold the hint; they hold it exactly
\* once when the base notes hold it at most once (none, empty, or a partial
\* overlap included), and base notes that hold the hint are kept as they are,
\* trimmed, however often they hold it; the step applied to its own result
\* changes nothing.
C15_HintEnsuredNotRepeated ==
    /\ notes_call.pc \in {"second", "done"} =>
          /\ Occurrences(notes_call.once) >= 1
          /\ Occurrences(BaseText) <= 1 => Occurrences(notes_call.once) = 1
          /\ Occurrences(BaseText) >= 1 =>
                /\ Occurrences(notes_call.once) = Occurrences(BaseText)
                /\ Len(notes_call.once) <= Len(BaseText)
    /\ notes_call.pc = "done" => notes_call.twice = notes_call.once

\* C15 witness: base notes that overlap the hint in part (its first half
\* only) got the whole hint appended once, and a second application kept them.
C15_Witness ==
    /\ notes_call.pc = "done"
    /\ notes_call.notes = <<"x", "h1">>
    /\ notes_call.once = <<"x", "h1", "NL", "h1", "h2">>
    /\ notes_call.twice = notes_call.once

-----------------------------------------------------------------------------
(***************************************************************************)
(* Properties of _post_process, checked under SpecNormalize.               *)
(***************************************************************************)
\* C17: _post_process is idempotent: run a second time on its own result,
\* with the same specification, context, bundle and search results, it
\* returns a payload identical to that result.
C17_NormalizationIdempotent == pp.pc = "done" => pp.second = pp.first

\* the term Ground Truth, in any letter case and with any blanks between its
\* two words, somewhere in a text
HasTerm(text) ==
    \E i, j \in 1 .. Len(text) :
        /\ i < j
        /\ text[i] \in {"G", "g"}
        /\ text[j] = "T"
        /\ \A k \in (i + 1) .. (j - 1) : text[k] = "SP"

\* the outward-facing texts of a payload: its text fields and the entries of
\* its list of provided materials
OutwardTexts(payload) ==
    {payload.notes, payload.summary, payload.allowed_external_research}
        \cup { payload.provided_materials[i] : i \in 1 .. Len(payload.provided_materials) }
        \cup { payload.task_objectives[i] : i \in 1 .. Len(payload.task_objectives) }

PointsAtPrimary(text, primary) ==
    \/ \E i \in 1 .. Len(text) :
          /\ text[i] \in UrlAtoms
          /\ \/ text[i] = primary.url
             \/ HostOf(text[i]) = HostOf(primary.url)
    \/ primary.title # <<>> /\ Contains(text, primary.title)

\* C19: after _post_process no entry of provided_materials embeds the URL of
\* the primary source or a URL on its host, or contains its title, the
\* entries backfilled from the references included, and a backfill adds no
\* more than three entries.
C19_NoPrimaryInMaterials ==
    pp.pc \in {"second", "done"} =>
        /\ \A i \in 1 .. Len(pp.first.provided_materials) :
              ~PointsAtPrimary(pp.first.provided_materials[i], pp.first.primary)
        /\ Len(pp.first.provided_materials) <=
              IF Len(pp.raw_output.provided_materials) > BackfillLimit
                 THEN Len(pp.raw_output.provided_materials)
                 ELSE BackfillLimit

\* C20: after _post_process the payload's identifier, level and orientation
\* are those of the specification, whatever the generation output carried
\* under these keys.
C20_IdentityFromSpecification ==
    pp.pc \in {"second", "done"} =>
        /\ pp.first.query_id = pp.spec.query_id
        /\ pp.first.level = normalized_level(pp.spec.level)
        /\ pp.first.orientation = normalized_orientation(pp.spec.orientation)

\* the number of places of a text that hold the guardrail
Guardrails(text) == Cardinality({ i \in 1 .. Len(text) : text[i] = "GUARD" })

\* the notes of the generation output as text (no notes are the empty text)
RawNotes == IF pp.raw_output.notes = Absent THEN <<>> ELSE pp.raw_output.notes

\* every objective of the generation output that held a training term holds
\* the replacement and no training term after _post_process
ObjectivesRewritten ==
    /\ Len(pp.first.task_objectives) = Len(pp.raw_output.task_objectives)
    /\ \A i \in 1 .. Len(pp.raw_output.task_objectives) :
          Contains(pp.raw_output.task_objectives[i], <<"TR">>) =>
              /\ Contains(pp.first.task_objectives[i], <<"VAL">>)
              /\ ~Contains(pp.first.task_objectives[i], <<"TR">>)

\* the notes end with the guardrail
EndsWithGuardrail(notes) == notes # <<>> /\ notes[Len(notes)] = "GUARD"

\* C21 (as claimed): for an L4 payload every objective that held a training
\* term holds the replacement instead after _post_process, and the notes end
\* with the guardrail, which occurs exactly once in them.
C21_GuardrailExactlyOnce ==
    (pp.pc \in {"second", "done"} /\ pp.first.level = "L4") =>
        /\ ObjectivesRewritten
        /\ EndsWithGuardrail(pp.first.notes)
        /\ Guardrails(pp.first.notes) = 1

\* C21 (amended): for an L4 payload every objective that held a training term
\* holds the replacement instead after _post_process, and the notes end with
\* the guardrail, which occurs once more than in the notes of the generation
\* output: exactly once when those did not hold it.
C21_GuardrailAppendedOnce ==
    (pp.pc \in {"second", "done"} /\ pp.first.level = "L4") =>
        /\ ObjectivesRewritten
        /\ EndsWithGuardrail(pp.first.notes)
        /\ Guardrails(pp.first.notes) = Guardrails(RawNotes) + 1

\* an L4 payload whose second objective held the training term twice, with
\* notes that did not hold the guardrail
C21_Witness ==
    /\ pp.pc = "second"
    /\ pp.first.level = "L4"
    /\ pp.raw_output.task_objectives = <<<<"X">>, <<"X", "TR", "TR">>>>
    /\ pp.first.task_objectives = <<<<"X">>, <<"X", "VAL", "VAL">>>>
    /\ pp.raw_output.notes = <<"X", "SP">>
    /\ pp.first.notes = <<"X", "SP", "SP", "GUARD">>

-----------------------------------------------------------------------------
(***************************************************************************)
(* Properties of the statements of _post_process, checked under            *)
(* SpecStages.                                                             *)
(***************************************************************************)
\* the normalization stage a statement works for: 1 field backfill
\* (identifier, level, orientation, context, the default standard answer and
\* evaluation guide), 2 ground-truth consolidation with the rebuilt
\* references, 3 provided-materials exclusion, 4 terminology scrubbing,
\* 5 internal-scope sanitization, 6 level compliance; 0 for the metadata
\* that belong to none of them
StageOf(statement) ==
    CASE statement \in {"stamp_identity", "ensure_context", "ensure_defaults"} -> 1
      [] statement \in {"consolidate", "rebuild_references"} -> 2
      [] statement = "drop_primary" -> 3
      [] statement = "scrub_terms" -> 4
      [] statement = "sanitize_scope" -> 5
      [] statement = "enforce_compliance" -> 6
      [] OTHER -> 0

\* the stages of the statements run so far, the metadata left out
StagesDone == SelectSeq([i \in 1 .. Len(norm.done) |-> StageOf(norm.done[i])], LAMBDA n : n # 0)

\* the order in which _post_process is written
CodeOrder ==
    << "stamp_identity", "ensure_context", "consolidate", "rebuild_references",
       "ensure_defaults", "attach_metadata", "drop_primary", "scrub_terms",
       "sanitize_scope", "enforce_compliance" >>

\* no statement was run twice
NoStatementTwice == \A i, j \in 1 .. Len(norm.done) : i # j => norm.done[i] # norm.done[j]

-----------------------------------------------------------------------------
(***************************************************************************)
(* Properties of the attempts of run_search, checked under SpecSearch.     *)
(***************************************************************************)
\* variants[min(k, len(variants) - 1)] of a base query, k counted from 0
VariantOfAttempt(base_query, k) ==
    LET variants == build_query_variants(base_query)
        place == IF k < Len(variants) - 1 THEN k ELSE Len(variants) - 1
    IN  variants[place + 1]

\* a step of run_search in which the backend is called, with the call before it
AttemptStep ==
    LET before == last_sent
        now == last_sent'
    IN  /\ now.attempt \in 0 .. 2
        /\ now.variant = VariantOfAttempt(rs_spec.search_queries[now.base_idx], now.attempt)
        /\ now.attempt = 0 =>
              /\ now.variant = rs_spec.search_queries[now.base_idx]
              /\ now.base_idx > before.base_idx
        /\ now.attempt > 0 =>
              /\ before.outcome = "failed"
              /\ before.base_idx = now.base_idx
              /\ now.attempt = before.attempt + 1
        /\ before.outcome = "returned" => now.base_idx > before.base_idx

\* C23: for each base query run_search calls the backend at most three times;
\* attempt 0 sends the verbatim query and attempt k > 0 sends
\* variants[min(k, len(variants) - 1)]; an attempt after the first follows a
\* failed attempt of the same base query, and the first attempt that returns
\* ends the attempts of that base query.
C23_AttemptsPerBaseQuery == [][last_sent' # last_sent => AttemptStep]_vars

\* the third attempt of a base query with operators: it sends the relaxed
\* variant after two failures, and returns
C23_Witness ==
    /\ last_sent.attempt = 2
    /\ last_sent.outcome = "returned"
    /\ rs_spec.search_queries[last_sent.base_idx] = QueryScoped
    /\ last_sent.variant = <<"W">>
    /\ last_sent.variant # QueryScoped

-----------------------------------------------------------------------------
(***************************************************************************)
(* Properties of QuerySpec.search_queries, checked under SpecQueries.      *)
(***************************************************************************)
\* the first place of query in a list that holds it
FirstPlace(list, query) ==
    CHOOSE i \in 1 .. Len(list) : list[i] = query /\ \A j \in 1 .. i - 1 : list[j] # query

\* list holds the entries of source once each, in the order of their first
\* occurrence in source
InFirstOccurrenceOrder(list, source) ==
    /\ { list[i] : i \in 1 .. Len(list) } = { source[i] : i \in 1 .. Len(source) }
    /\ \A i, j \in 1 .. Len(list) :
          i < j => FirstPlace(source, list[i]) < FirstPlace(source, list[j])

\* C27: after the construction and after every assignment to search_query the
\* list of search queries is not empty, holds no query twice and no empty
\* string, in the order of first occurrence in the value handed over; a
\* construction or an assignment whose value holds no query fails, and the
\* failed assignment leaves the list as it was.
C27_QueriesNonEmptyDistinct ==
    /\ qspec.pc \in {"constructed", "assigned", "assignment_failed"} =>
          /\ qspec.search_queries # <<>>
          /\ \A i, j \in 1 .. Len(qspec.search_queries) :
                i # j => qspec.search_queries[i] # qspec.search_queries[j]
          /\ \A i \in 1 .. Len(qspec.search_queries) :
                /\ qspec.search_queries[i] # <<>>
                /\ "SEP" \notin { qspec.search_queries[i][k] :
                                    k \in 1 .. Len(qspec.search_queries[i]) }
    /\ qspec.pc \in {"constructed", "assigned"} =>
          /\ Pushed(qspec.raw) # <<>>
          /\ InFirstOccurrenceOrder(qspec.search_queries, Pushed(qspec.raw))
    /\ qspec.pc \in {"construction_failed", "assignment_failed"} => Pushed(qspec.raw) = <<>>
    /\ qspec.pc = "assignment_failed" => qspec.search_queries = qspec.before

\* an assignment of "b,a,b" to a specification that held the query "a": the
\* list is b, a
C27_Witness ==
    /\ qspec.pc = "assigned"
    /\ qspec.before = <<<<"a">>>>
    /\ qspec.raw = [kind |-> "list", items |-> <<<<"b">>, <<"a", "SEP", "b">>>>]
    /\ qspec.search_queries = <<<<"b">>, <<"a">>>>

-----------------------------------------------------------------------------
(***************************************************************************)
(* Properties of create_chat_completion, checked under SpecChat.           *)
(***************************************************************************)
\* the outcome of the latest request of the call
LastRequest == chat.requests[Len(chat.requests)]

\* C28: one call sends at most max_retries requests; every request but the
\* latest timed out; a request that failed otherwise than by a timeout, and a
\* timeout of the last request allowed, end the call with LLMError.
C28_RetryOnlyOnTimeout ==
    chat.pc # "idle" =>
        /\ Len(chat.requests) <= chat.max_retries
        /\ \A i \in 1 .. Len(chat.requests) - 1 : chat.requests[i] = "timeout"
        /\ (chat.requests # <<>> /\ LastRequest \notin {"timeout", "choices"}) =>
              chat.pc = "LLMError"
        /\ (Len(chat.requests) = chat.max_retries /\ chat.requests # <<>>
                /\ LastRequest = "timeout") => chat.pc = "LLMError"

-----------------------------------------------------------------------------
(***************************************************************************)
(* Properties of the shared search cache, checked under Spec.              *)
(***************************************************************************)
\* the call of specification i searched, and run_search returned its list
SearchSucceeded(i) ==
    /\ task[i].searches = 1
    /\ ~task[i].search_failed
    /\ task[i].search_results = i
    /\ task[i].pc \notin {"queued", "search", "store"}

\* C29: every entry of the search cache is the list that a call of run_search
\* returned for a specification of that key, and a call whose search failed
\* has written nothing and holds no list: a later specification of the key
\* finds the entry empty and searches for itself.
C29_CacheHoldsReturnedLists ==
    /\ \A k \in Keys :
          search_cache[k] # NoResults =>
              \E i \in SpecIds : /\ specs[i] = k
                                 /\ search_cache[k] = i
                                 /\ SearchSucceeded(i)
    /\ \A i \in SpecIds :
          task[i].search_failed =>
              /\ task[i].search_results = NoResults
              /\ search_cache[specs[i]] # i
              /\ task[i].pc = "returned" /\ task[i].payload = NoPayload
    /\ \A i \in SpecIds :
          (task[i].pc \in {"build", "package"} \/ task[i].payload # NoPayload) =>
              \E j \in SpecIds : /\ specs[j] = specs[i]
                                 /\ task[i].search_results = j
                                 /\ ~task[j].search_failed

\* a specification whose search failed, and a later specification of the same
\* key that searched for itself and filled the entry
C29_Witness ==
    /\ Len(specs) = 2 /\ specs[1] = specs[2]
    /\ task[1].search_failed
    /\ task[2].searches = 1
    /\ search_cache[specs[2]] = 2
    /\ task[2].payload # NoPayload

\* C30: an entry of the search cache, once written, keeps its value, and every
\* payload is built from the list its key has in the cache, whatever the
\* worker count and the interleaving.
C30_CacheEntryNeverReplaced ==
    [][/\ \A k \in Keys :
             search_cache[k] # NoResults => search_cache'[k] = search_cache[k]
       /\ \A i \in SpecIds :
             task'[i].payload # NoPayload =>
                 task'[i].payload.search_results = search_cache'[specs[i]]]_vars

=============================================================================
